---- MODULE Spec2Model ----
(***************************************************************************)
(* A model of the brownstone IFC generator (brownstone-ifc-generator.py).   *)
(*                                                                          *)
(* Numbers.  The program computes in Python floats.  The model computes in  *)
(* exact integers: a length given in feet is an integer number of tenths    *)
(* of a foot (3.5 ft is 35), a length in metres is an integer number of     *)
(* micrometres, and FOOT_TO_METER (0.3048 m/ft) is 30480 micrometres per    *)
(* tenth of a foot.  Every division and every decimal factor the program    *)
(* applies (/2, /3, /4, *0.25, *0.3, ...) is exact on these integers, so    *)
(* an equality of the model is an equality of the program up to floating    *)
(* point rounding.                                                          *)
(*                                                                          *)
(* Lists.  A Python list is a sequence; At(list, i) is list[i] with the     *)
(* program's 0-based index.                                                 *)
(***************************************************************************)
EXTENDS Integers, Sequences, FiniteSets, TLC

VARIABLES
    params,        \* the module's global parameters (lines 30-39), in tenths of a foot
    pc,            \* the position of create_brownstone_ifc
    model,         \* the IFC file under construction
    storeys,       \* create_brownstone_ifc's local: the list create_storeys returned
    walls,         \* ... the list create_walls returned
    slabs,         \* ... the list create_slabs returned
    windows,       \* ... the list create_windows returned
    doors,         \* ... the list create_doors returned
    stoop,         \* ... the element create_stoop returned
    fixtures,      \* ... the list create_fixtures returned
    mep_elements,  \* ... the list create_mep_elements returned
    written,       \* whether model.write(output_file) has run
    raised,        \* the exception that left the last call, NoError if it returned
    call,          \* the last direct call of an element constructor
    previous,      \* the files of the earlier runs of create_brownstone_ifc
    unmeshable,    \* the viewer: the entities of the file create_shape raises for
    type_index,    \* ... the number of turns of visualize_ifc's loop over entity_types
    meshes_by_type, \* ... visualize_ifc's local
    entity_count   \* ... visualize_ifc's local

\* The state of brownstone-ifc-viewer.py.
viewer_vars == <<unmeshable, type_index, meshes_by_type, entity_count>>

vars == <<params, pc, model, storeys, walls, slabs, windows, doors, stoop,
          fixtures, mep_elements, written, raised, call, previous, viewer_vars>>

----------------------------------------------------------------------------
(* The global parameters and the unit conversion.                          *)

DefaultBuildingWidth == 400
DefaultBuildingDepth == 800
DefaultBasementHeight == 90
DefaultFirstFloorHeight == 100
DefaultSecondFloorHeight == 140
DefaultThirdFloorHeight == 120
DefaultFourthFloorHeight == 120
DefaultWallThickness == 10
DefaultFloorThickness == 10
DefaultRoofThickness == 15

\* The parameters other than the defaults that the model explores.
MaxAltHeight == 1      \* floor heights of 1 .. MaxAltHeight feet
MaxAltGeometry == 1    \* footprints and thicknesses 1 .. MaxAltGeometry

FOOT_TO_METER == 30480

BUILDING_WIDTH == params.BUILDING_WIDTH
BUILDING_DEPTH == params.BUILDING_DEPTH
BASEMENT_HEIGHT == params.BASEMENT_HEIGHT
FIRST_FLOOR_HEIGHT == params.FIRST_FLOOR_HEIGHT
SECOND_FLOOR_HEIGHT == params.SECOND_FLOOR_HEIGHT
THIRD_FLOOR_HEIGHT == params.THIRD_FLOOR_HEIGHT
FOURTH_FLOOR_HEIGHT == params.FOURTH_FLOOR_HEIGHT
WALL_THICKNESS == params.WALL_THICKNESS
FLOOR_THICKNESS == params.FLOOR_THICKNESS
ROOF_THICKNESS == params.ROOF_THICKNESS

convert_to_meter(feet) == feet * FOOT_TO_METER

----------------------------------------------------------------------------
(* Python lists and values.                                                 *)

None == 0                      \* no element: element ids start at 1

At(list, i) == list[i + 1]     \* list[i], 0-based

AllButLast(list) == IF Len(list) = 0 THEN << >> ELSE SubSeq(list, 1, Len(list) - 1)

Abs(x) == IF x < 0 THEN -x ELSE x

\* x * 0.25 is Times(x, 25): the decimal factors of the program, in hundredths.
Times(x, hundredths) == (x * hundredths) \div 100

\* The frame every element but a wall is placed in: translation only.
WorldZ == <<0, 0, 1>>
WorldX == <<1, 0, 0>>
WorldY == <<0, 1, 0>>

\* No exception.
NoError == "no error"

----------------------------------------------------------------------------
(* The IFC file: the elements, the layer-set usages, the material           *)
(* associations and the containment relations created so far, in creation   *)
(* order.  An element's id is its position in `elements`, a usage's id its  *)
(* position in `usages`; a storey is referred to by its `id`.               *)
(*                                                                          *)
(* What differs from one run to the next is the run's `seed`, the outcome   *)
(* of the random source behind uuid.uuid4(), and its `time`, the clock      *)
(* datetime.now() reads.  The identifiers of the head entities (project,    *)
(* site, building, storeys) are drawn from the same source and not kept.    *)

\* create_ifc_model: an empty file and its owner history, stamped with the
\* time string.
NewModel(run) ==
    [seed |-> run.seed, guids |-> 0,
     owner_history |-> [CreationDate |-> run.time],
     elements |-> << >>, usages |-> << >>, assocs |-> << >>, rels |-> << >>]

\* create_guid(): the next 22-character identifier of the run.  Two calls of
\* one run, and calls of runs with different seeds, return different values.
create_guid(m) == <<m.seed, m.guids + 1>>

\* IfcLocalPlacement(None, IfcAxis2Placement3D(point, axis, ref_direction))
Placement(point, axis, ref_direction) ==
    [Location |-> point, Axis |-> axis, RefDirection |-> ref_direction]

\* createIfcExtrudedAreaSolid over the closed polyline `points`, wrapped in its
\* shape representation and product definition shape.
ExtrudedAreaSolid(points, direction, depth) ==
    [points |-> points, ExtrudedDirection |-> direction, Depth |-> depth]

\* model.createIfc<type>(guid, owner_history, name, ..., placement, shape, ..., predefined)
\* `predefined` is "" for a None; OverallHeight is set for doors only.
\* A slip: the element's name made unique with the run's random source.
AddElementH_name_from_seed(m, type, name, placement, shape, predefined, overall_height) ==
    [m EXCEPT !.guids = @ + 1,
              !.elements = Append(@, [GlobalId |-> create_guid(m),
                                      type |-> type,
                                      Name |-> name \o " " \o ToString(m.seed),
                                      ObjectPlacement |-> placement,
                                      Representation |-> shape,
                                      PredefinedType |-> predefined,
                                      OverallHeight |-> overall_height])]

AddElementH(m, type, name, placement, shape, predefined, overall_height) ==
    [m EXCEPT !.guids = @ + 1,
              !.elements = Append(@, [GlobalId |-> create_guid(m),
                                      type |-> type, Name |-> name,
                                      ObjectPlacement |-> placement,
                                      Representation |-> shape,
                                      PredefinedType |-> predefined,
                                      OverallHeight |-> overall_height])]

AddElement(m, type, name, placement, shape, predefined) ==
    AddElementH(m, type, name, placement, shape, predefined, None)

LastElement(m) == Len(m.elements)

\* createIfcMaterialLayerSetUsage(LayerSet([Layer(Material(name), thickness)]),
\*                                "AXIS2", "POSITIVE", 0.0)
AddUsage(m, material_name, thickness) ==
    [m EXCEPT !.usages = Append(@, [Material |-> material_name,
                                    LayerThickness |-> thickness,
                                    LayerSetDirection |-> "AXIS2",
                                    DirectionSense |-> "POSITIVE",
                                    OffsetFromReferenceLine |-> 0])]

LastUsage(m) == Len(m.usages)

\* createIfcRelAssociatesMaterial(guid, owner_history, None, None, elems, usage)
AddAssoc(m, elems, usage) ==
    [m EXCEPT !.guids = @ + 1,
              !.assocs = Append(@, [GlobalId |-> create_guid(m),
                                    RelatedObjects |-> elems,
                                    RelatingMaterial |-> usage])]

\* createIfcRelContainedInSpatialStructure(guid, owner_history, name, None, elems, storey)
\* A slip: the storey's membership set anew, its earlier relations dropped.
AddRel_replacing(m, name, elems, storey) ==
    [m EXCEPT !.guids = @ + 1,
              !.rels = Append(SelectSeq(@, LAMBDA r : r.RelatingStructure # storey.id),
                              [GlobalId |-> create_guid(m),
                               Name |-> name, RelatedElements |-> elems,
                               RelatingStructure |-> storey.id])]

AddRel(m, name, elems, storey) ==
    [m EXCEPT !.guids = @ + 1,
              !.rels = Append(@, [GlobalId |-> create_guid(m),
                                  Name |-> name, RelatedElements |-> elems,
                                  RelatingStructure |-> storey.id])]

----------------------------------------------------------------------------
(* create_storeys                                                           *)

storey_names ==
    <<"Basement", "First Floor", "Second Floor", "Third Floor", "Fourth Floor", "Roof">>

\* A slip: each storey at its own floor's height instead of the running sum.
storey_elevations_not_summed ==
    << -convert_to_meter(BASEMENT_HEIGHT),
       0,
       convert_to_meter(FIRST_FLOOR_HEIGHT),
       convert_to_meter(SECOND_FLOOR_HEIGHT),
       convert_to_meter(THIRD_FLOOR_HEIGHT),
       convert_to_meter(FOURTH_FLOOR_HEIGHT) >>

storey_elevations ==
    << -convert_to_meter(BASEMENT_HEIGHT),
       0,
       convert_to_meter(FIRST_FLOOR_HEIGHT),
       convert_to_meter(FIRST_FLOOR_HEIGHT + SECOND_FLOOR_HEIGHT),
       convert_to_meter(FIRST_FLOOR_HEIGHT + SECOND_FLOOR_HEIGHT + THIRD_FLOOR_HEIGHT),
       convert_to_meter(FIRST_FLOOR_HEIGHT + SECOND_FLOOR_HEIGHT + THIRD_FLOOR_HEIGHT
                        + FOURTH_FLOOR_HEIGHT) >>

\* The list of storeys: one per (name, elevation) pair of the zip, in order.
create_storeys ==
    [k \in 1..Len(storey_names) |->
        [id |-> k - 1, Name |-> storey_names[k], Elevation |-> storey_elevations[k]]]

----------------------------------------------------------------------------
(* create_wall, create_wall_extrusion                                       *)

\* math.sqrt(dx**2 + dy**2).  Every wall request of the program runs along the
\* X or the Y axis, where the root is |dx| + |dy| exactly; the squares
\* themselves do not fit the model checker's integers.
SegmentLength(dx, dy) == Abs(dx) + Abs(dy)

\* A slip: the profile centred on the start point instead of running from it.
create_wall_extrusion_centred(length, thickness, height) ==
    ExtrudedAreaSolid(<< <<-(length \div 2), -(thickness \div 2)>>,
                         <<length \div 2, -(thickness \div 2)>>,
                         <<length \div 2, thickness \div 2>>,
                         <<-(length \div 2), thickness \div 2>>,
                         <<-(length \div 2), -(thickness \div 2)>> >>,
                      <<0, 0, 1>>, height)

create_wall_extrusion(length, thickness, height) ==
    ExtrudedAreaSolid(<< <<0, -(thickness \div 2)>>,
                         <<length, -(thickness \div 2)>>,
                         <<length, thickness \div 2>>,
                         <<0, thickness \div 2>>,
                         <<0, -(thickness \div 2)>> >>,
                      <<0, 0, 1>>, height)

\* A slip: every wall given a layer set usage of its own, copied from the
\* storey's.
create_wall_own_usage(m, name, start_point, end_point, thickness, height, material_layer_set_usage) ==
    LET direction == <<end_point[1] - start_point[1], end_point[2] - start_point[2], 0>>
        length == SegmentLength(direction[1], direction[2])
    IN  IF length = 0
        THEN [m |-> m, wall |-> None]
        ELSE
          LET normalized_direction ==
                  <<direction[1] \div length, direction[2] \div length, 0>>
              wall_placement == Placement(start_point, <<0, 0, 1>>, normalized_direction)
              extrusion == create_wall_extrusion(length, thickness, height)
              m1 == AddElement(m, "IfcWallStandardCase", name, wall_placement,
                               extrusion, "")
              wall == LastElement(m1)
              m2 == AddUsage(m1, m.usages[material_layer_set_usage].Material, thickness)
          IN  [m |-> AddAssoc(m2, <<wall>>, LastUsage(m2)), wall |-> wall]

\* Returns the file and the wall's id, or the file untouched and None.
create_wall(m, name, start_point, end_point, thickness, height, material_layer_set_usage) ==
    LET direction == <<end_point[1] - start_point[1], end_point[2] - start_point[2], 0>>
        length == SegmentLength(direction[1], direction[2])
    IN  IF length = 0
        THEN [m |-> m, wall |-> None]
        ELSE
          LET normalized_direction ==
                  <<direction[1] \div length, direction[2] \div length, 0>>
              wall_placement == Placement(start_point, <<0, 0, 1>>, normalized_direction)
              extrusion == create_wall_extrusion(length, thickness, height)
              m1 == AddElement(m, "IfcWallStandardCase", name, wall_placement,
                               extrusion, "")
              wall == LastElement(m1)
          IN  [m |-> AddAssoc(m1, <<wall>>, material_layer_set_usage), wall |-> wall]

----------------------------------------------------------------------------
(* create_walls                                                             *)

\* A slip: the table begun at the first floor, the basement's height left out.
wall_heights_without_basement ==
    <<FIRST_FLOOR_HEIGHT, SECOND_FLOOR_HEIGHT, THIRD_FLOOR_HEIGHT, FOURTH_FLOOR_HEIGHT,
      FOURTH_FLOOR_HEIGHT>>

wall_heights ==
    <<BASEMENT_HEIGHT, FIRST_FLOOR_HEIGHT, SECOND_FLOOR_HEIGHT, THIRD_FLOOR_HEIGHT,
      FOURTH_FLOOR_HEIGHT>>

\* A slip: the second floor falls through to the upper floors' material.
wall_material_name_first_floor_only(i) ==
    IF i = 0 THEN "Concrete"
    ELSE IF i = 1 THEN "Brownstone"
    ELSE "Brick"

\* Wall material based on floor (lines 171-177).
wall_material_name(i) ==
    IF i = 0 THEN "Concrete"
    ELSE IF i = 1 \/ i = 2 THEN "Brownstone"
    ELSE "Brick"

\* The wall requests of storey i, in the order the loop body issues them:
\* <<name, start_point, end_point>>.
perimeter_wall_requests(width, depth, storey_elevation) ==
    << <<"Front Wall", <<0, 0, storey_elevation>>, <<width, 0, storey_elevation>> >>,
       <<"Back Wall", <<0, depth, storey_elevation>>, <<width, depth, storey_elevation>> >>,
       <<"Left Wall", <<0, 0, storey_elevation>>, <<0, depth, storey_elevation>> >>,
       <<"Right Wall", <<width, 0, storey_elevation>>, <<width, depth, storey_elevation>> >> >>

interior_wall_requests(width, depth, storey_elevation) ==
    << <<"Corridor Wall", <<0, depth \div 2, storey_elevation>>,
                          <<width, depth \div 2, storey_elevation>> >> >>
    \o [j \in 1..2 |->
          <<"Cross Wall " \o ToString(j),
            <<(width \div 3) * j, 0, storey_elevation>>,
            <<(width \div 3) * j, depth, storey_elevation>> >>]

\* A slip: the basement is not exempted from the interior walls.
wall_requests_interior_everywhere(i, width, depth, storey_elevation) ==
    perimeter_wall_requests(width, depth, storey_elevation)
    \o interior_wall_requests(width, depth, storey_elevation)

wall_requests(i, width, depth, storey_elevation) ==
    perimeter_wall_requests(width, depth, storey_elevation)
    \o (IF i > 0 THEN interior_wall_requests(width, depth, storey_elevation) ELSE << >>)

\* walls.append(create_wall(...)) for each request in turn: whatever create_wall
\* returns is appended.
RECURSIVE append_walls(_, _, _, _, _, _)
append_walls(m, requests, thickness, wall_height, usage, walls_so_far) ==
    IF requests = << >>
    THEN [m |-> m, walls |-> walls_so_far]
    ELSE LET req == Head(requests)
             r == create_wall(m, req[1], req[2], req[3], thickness, wall_height, usage)
         IN  append_walls(r.m, Tail(requests), thickness, wall_height, usage,
                          Append(walls_so_far, r.wall))

\* createIfcRelContainedInSpatialStructure called with a list that may hold a
\* None.  What the IFC library does with a None in RelatedElements is not this
\* repository's code: it either stores the list as given (none_ok) or raises.
rel_contained(m, name, elems, storey, none_ok) ==
    IF (\E k \in 1..Len(elems) : elems[k] = None) /\ ~none_ok
    THEN [m |-> m, raised |-> "TypeError"]
    ELSE [m |-> AddRel(m, name, elems, storey), raised |-> NoError]

\* One turn of the loop over storeys[:-1] (lines 159-240).
walls_of_storey(m, i, storey, none_ok) ==
    LET storey_elevation == storey.Elevation
        wall_height == convert_to_meter(At(wall_heights, i))
        width == convert_to_meter(BUILDING_WIDTH)
        depth == convert_to_meter(BUILDING_DEPTH)
        thickness == convert_to_meter(WALL_THICKNESS)
        m1 == AddUsage(m, wall_material_name(i), convert_to_meter(WALL_THICKNESS))
        material_layer_set_usage == LastUsage(m1)
        built == append_walls(m1, wall_requests(i, width, depth, storey_elevation),
                              thickness, wall_height, material_layer_set_usage, << >>)
        rel == rel_contained(built.m, "Storey " \o ToString(i) \o " Walls",
                             built.walls, storey, none_ok)
    IN  [m |-> rel.m, walls |-> built.walls, raised |-> rel.raised]

RECURSIVE walls_loop(_, _, _, _, _)
walls_loop(m, storey_list, i, all_walls, none_ok) ==
    IF i >= Len(storey_list)
    THEN [m |-> m, ret |-> all_walls, raised |-> NoError]
    ELSE IF i >= Len(wall_heights)
    THEN [m |-> m, ret |-> all_walls, raised |-> "IndexError"]
    ELSE LET r == walls_of_storey(m, i, At(storey_list, i), none_ok)
         IN  IF r.raised # NoError
             THEN [m |-> r.m, ret |-> all_walls, raised |-> r.raised]
             ELSE walls_loop(r.m, storey_list, i + 1, all_walls \o r.walls, none_ok)

create_walls(m, storey_list, none_ok) ==
    walls_loop(m, AllButLast(storey_list), 0, << >>, none_ok)

----------------------------------------------------------------------------
(* create_slabs, create_slab_extrusion                                      *)

\* The closed rectangle [0,0], [a,0], [a,b], [0,b], [0,0] every extrusion but
\* the wall's is built on.
Rectangle(a, b) == << <<0, 0>>, <<a, 0>>, <<a, b>>, <<0, b>>, <<0, 0>> >>

create_slab_extrusion(width, depth, thickness) ==
    ExtrudedAreaSolid(Rectangle(width, depth), WorldZ, thickness)

\* Material based on floor (line 326).
slab_material_name(i) == IF i = 0 THEN "Concrete" ELSE "Wood Floor"

\* A slip: the slab's bottom, not its top, at the next storey's elevation.
slab_z_at_elevation(next_elevation) == next_elevation

\* The z of the slab's placement (line 337).
slab_z(next_elevation) == next_elevation - convert_to_meter(FLOOR_THICKNESS)

\* A slip: the roof tag one boundary lower.
slab_is_roof_one_lower(i, storey_list) == i = Len(storey_list) - 3

\* Lines 346-347.
slab_is_roof(i, storey_list) == i = Len(storey_list) - 2

slab_name(i, storey_list) ==
    IF slab_is_roof(i, storey_list) THEN "Roof" ELSE "Floor " \o ToString(i + 1)

slab_type(i, storey_list) == IF slab_is_roof(i, storey_list) THEN "ROOF" ELSE "FLOOR"

\* A slip: the slab related to the storey below the boundary.
slab_storey_below(i, storey_list) == At(storey_list, i)

\* The storey the slab of turn i is related to (line 357).
slab_storey(i, storey_list) == At(storey_list, i + 1)

\* One turn of the loop over storeys[:-1] (lines 316-359).
slab_of_storey(m, i, storey_list) ==
    LET next_elevation == At(storey_list, i + 1).Elevation
        width == convert_to_meter(BUILDING_WIDTH)
        depth == convert_to_meter(BUILDING_DEPTH)
        m1 == AddUsage(m, slab_material_name(i), convert_to_meter(FLOOR_THICKNESS))
        material_layer_set_usage == LastUsage(m1)
        slab_placement == Placement(<<0, 0, slab_z(next_elevation)>>, WorldZ, WorldX)
        extrusion == create_slab_extrusion(width, depth, convert_to_meter(FLOOR_THICKNESS))
        m2 == AddElement(m1, "IfcSlab", slab_name(i, storey_list), slab_placement,
                         extrusion, slab_type(i, storey_list))
        slab == LastElement(m2)
        m3 == AddAssoc(m2, <<slab>>, material_layer_set_usage)
        m4 == AddRel(m3, "Storey " \o ToString(i) \o " Slab", <<slab>>,
                     slab_storey(i, storey_list))
    IN  [m |-> m4, slab |-> slab]

RECURSIVE slabs_loop(_, _, _, _)
slabs_loop(m, storey_list, i, all_slabs) ==
    IF i >= Len(storey_list) - 1
    THEN [m |-> m, ret |-> all_slabs]
    ELSE LET r == slab_of_storey(m, i, storey_list)
         IN  slabs_loop(r.m, storey_list, i + 1, Append(all_slabs, r.slab))

\* A slip: the roof slab offset downward like the slabs of the loop.
roof_z_offset_down(top_elevation) == top_elevation - convert_to_meter(ROOF_THICKNESS)

\* The z of the roof slab's placement (line 378).
roof_z(top_elevation) == top_elevation

\* The roof slab (lines 361-398); storey_list is not empty.
roof_slab(m, storey_list) ==
    LET top_storey == At(storey_list, Len(storey_list) - 1)
        top_elevation == top_storey.Elevation
        width == convert_to_meter(BUILDING_WIDTH)
        depth == convert_to_meter(BUILDING_DEPTH)
        m1 == AddUsage(m, "Roof Membrane", convert_to_meter(ROOF_THICKNESS))
        roof_material_layer_set_usage == LastUsage(m1)
        roof_placement == Placement(<<0, 0, roof_z(top_elevation)>>, WorldZ, WorldX)
        roof_extrusion == create_slab_extrusion(width, depth, convert_to_meter(ROOF_THICKNESS))
        m2 == AddElement(m1, "IfcSlab", "Roof Slab", roof_placement, roof_extrusion, "ROOF")
        roof == LastElement(m2)
        m3 == AddAssoc(m2, <<roof>>, roof_material_layer_set_usage)
    IN  [m |-> AddRel(m3, "Roof Slab", <<roof>>, top_storey), roof |-> roof]

\* A slip: the roof slab after the loop is left out.
create_slabs_without_roof_slab(m, storey_list) ==
    LET looped == slabs_loop(m, storey_list, 0, << >>)
    IN  [m |-> looped.m, ret |-> looped.ret, raised |-> NoError]

create_slabs(m, storey_list) ==
    LET looped == slabs_loop(m, storey_list, 0, << >>)
    IN  IF Len(storey_list) = 0
        THEN [m |-> looped.m, ret |-> << >>, raised |-> "IndexError"]   \* storeys[-1]
        ELSE LET r == roof_slab(looped.m, storey_list)
             IN  [m |-> r.m, ret |-> Append(looped.ret, r.roof), raised |-> NoError]

----------------------------------------------------------------------------
(* create_windows, create_window, create_window_extrusion                   *)

create_window_extrusion(width, height, thickness) ==
    ExtrudedAreaSolid(Rectangle(width, height), WorldY, thickness)

create_window(m, name, position, width, height) ==
    LET window_placement == Placement(position, WorldZ, WorldX)
        extrusion == create_window_extrusion(width, height, convert_to_meter(WALL_THICKNESS))
        m1 == AddElement(m, "IfcWindow", name, window_placement, extrusion, "")
    IN  [m |-> m1, window |-> LastElement(m1)]

\* Window properties for each floor, in tenths of a foot (lines 598-612).
\* A slip: the first floor's windows half a foot taller.
window_heights_taller_first_floor ==
    [i \in 0..4 |-> IF i = 0 THEN 30 ELSE IF i = 1 THEN 65 ELSE IF i = 2 THEN 80 ELSE 60]

window_heights == [i \in 0..4 |-> IF i = 0 THEN 30 ELSE IF i = 2 THEN 80 ELSE 60]

window_widths == [i \in 0..4 |-> IF i = 0 THEN 30 ELSE IF i = 2 THEN 40 ELSE 35]

\* Lines 617-620.
window_count_of(i) == IF i = 0 THEN 2 ELSE 3

\* Window sill height, in tenths of a foot (line 634).
SillHeightFt == 30

\* A slip: j where the program has j + 1.
window_x_position_from_j(building_width, window_width, window_count, j) ==
    IF window_count = 1
    THEN building_width \div 2 - window_width \div 2
    ELSE (building_width * j) \div (window_count + 1) - window_width \div 2

\* Lines 640-643: the front facade's loop.
window_x_position(building_width, window_width, window_count, j) ==
    IF window_count = 1
    THEN building_width \div 2 - window_width \div 2
    ELSE (building_width * (j + 1)) \div (window_count + 1) - window_width \div 2

\* A slip: the back facade's windows spaced from the corner, not centred.
back_window_x_position_from_corner(building_width, window_width, window_count, j) ==
    IF window_count = 1
    THEN building_width \div 2 - window_width \div 2
    ELSE (building_width * (j + 1)) \div (window_count + 1)

\* Lines 656-659: the back facade's loop, which repeats the computation.
back_window_x_position(building_width, window_width, window_count, j) ==
    IF window_count = 1
    THEN building_width \div 2 - window_width \div 2
    ELSE (building_width * (j + 1)) \div (window_count + 1) - window_width \div 2

\* One facade's loop over range(window_count): the windows at y, named
\* "<side> Window i-j".
RECURSIVE facade_windows(_, _, _, _, _, _, _, _, _, _)
facade_windows(m, side, i, j, window_count, y, z, window_width, window_height, so_far) ==
    IF j >= window_count
    THEN [m |-> m, windows |-> so_far]
    ELSE LET x_position ==
                 IF side = "Front"
                 THEN window_x_position(convert_to_meter(BUILDING_WIDTH),
                                        window_width, window_count, j)
                 ELSE back_window_x_position(convert_to_meter(BUILDING_WIDTH),
                                             window_width, window_count, j)
             r == create_window(m, side \o " Window " \o ToString(i) \o "-" \o ToString(j),
                                <<x_position, y, z>>, window_width, window_height)
         IN  facade_windows(r.m, side, i, j + 1, window_count, y, z, window_width,
                            window_height, Append(so_far, r.window))

\* One turn of the loop over storeys[:-1] (lines 615-674); i is a key of the tables.
windows_of_storey(m, i, storey) ==
    LET window_count == window_count_of(i)
        storey_elevation == storey.Elevation
        building_depth == convert_to_meter(BUILDING_DEPTH)
        window_width == convert_to_meter(window_widths[i])
        window_height == convert_to_meter(window_heights[i])
        sill_height == convert_to_meter(SillHeightFt)
        front == facade_windows(m, "Front", i, 0, window_count, 0,
                                storey_elevation + sill_height,
                                window_width, window_height, << >>)
        back == facade_windows(front.m, "Back", i, 0, window_count, building_depth,
                               storey_elevation + sill_height,
                               window_width, window_height, << >>)
    IN  [m |-> AddRel(back.m, "Storey " \o ToString(i) \o " Windows",
                      front.windows \o back.windows, storey),
         windows |-> front.windows \o back.windows, raised |-> NoError]

RECURSIVE windows_loop(_, _, _, _)
windows_loop(m, storey_list, i, all_windows) ==
    IF i >= Len(storey_list)
    THEN [m |-> m, ret |-> all_windows, raised |-> NoError]
    ELSE IF i \notin DOMAIN window_widths
    THEN [m |-> m, ret |-> all_windows, raised |-> "KeyError"]
    ELSE LET r == windows_of_storey(m, i, At(storey_list, i))
         IN  IF r.raised # NoError
             THEN [m |-> r.m, ret |-> all_windows, raised |-> r.raised]
             ELSE windows_loop(r.m, storey_list, i + 1, all_windows \o r.windows)

create_windows(m, storey_list) == windows_loop(m, AllButLast(storey_list), 0, << >>)

----------------------------------------------------------------------------
(* create_doors, create_door, create_door_extrusion                         *)

create_door_extrusion(width, height, thickness) ==
    ExtrudedAreaSolid(Rectangle(width, height), WorldY, thickness)

create_door(m, name, position, width, height) ==
    LET door_placement == Placement(position, WorldZ, WorldX)
        extrusion == create_door_extrusion(width, height, convert_to_meter(WALL_THICKNESS))
        m1 == AddElementH(m, "IfcDoor", name, door_placement, extrusion, "", height)
    IN  [m |-> m1, door |-> LastElement(m1)]

\* Door sizes in tenths of a foot (lines 492-493, 521-522).
FrontDoorWidthFt == 40
FrontDoorHeightFt == 80
InteriorDoorWidthFt == 30
InteriorDoorHeightFt == 70

\* A slip: the door's corner, not its centre, at the facade's midpoint.
front_door_position_not_centred(storey_list) ==
    <<convert_to_meter(BUILDING_WIDTH) \div 2, 0, At(storey_list, 1).Elevation>>

\* Line 500; storey_list has a storey 1.
front_door_position(storey_list) ==
    <<convert_to_meter(BUILDING_WIDTH) \div 2 - convert_to_meter(FrontDoorWidthFt) \div 2,
      0,
      At(storey_list, 1).Elevation>>

\* The storey the front door is related to (line 509).
front_door_storey(storey_list) == At(storey_list, 1)

\* Lines 491-509.
front_door(m, storey_list) ==
    LET r == create_door(m, "Front Door", front_door_position(storey_list),
                         convert_to_meter(FrontDoorWidthFt),
                         convert_to_meter(FrontDoorHeightFt))
    IN  [m |-> AddRel(r.m, "Front Door", <<r.door>>, front_door_storey(storey_list)),
         door |-> r.door]

\* A slip: j where the program has j + 1.
interior_door_position_from_j(j, storey_elevation) ==
    <<(convert_to_meter(BUILDING_WIDTH) \div 3) * j,
      convert_to_meter(BUILDING_DEPTH) \div 2,
      storey_elevation>>

\* Line 527.
interior_door_position(j, storey_elevation) ==
    <<(convert_to_meter(BUILDING_WIDTH) \div 3) * (j + 1),
      convert_to_meter(BUILDING_DEPTH) \div 2,
      storey_elevation>>

\* One turn of the loop over storeys[:-1] for i > 0 (lines 519-537).
interior_doors_of_storey(m, i, storey) ==
    LET door_width == convert_to_meter(InteriorDoorWidthFt)
        door_height == convert_to_meter(InteriorDoorHeightFt)
        d0 == create_door(m, "Interior Door " \o ToString(i) \o "-0",
                          interior_door_position(0, storey.Elevation),
                          door_width, door_height)
        d1 == create_door(d0.m, "Interior Door " \o ToString(i) \o "-1",
                          interior_door_position(1, storey.Elevation),
                          door_width, door_height)
        interior_doors == <<d0.door, d1.door>>
    IN  [m |-> AddRel(d1.m, "Storey " \o ToString(i) \o " Doors", interior_doors, storey),
         doors |-> interior_doors, raised |-> NoError]

RECURSIVE doors_loop(_, _, _, _)
doors_loop(m, storey_list, i, all_doors) ==
    IF i >= Len(storey_list)
    THEN [m |-> m, ret |-> all_doors, raised |-> NoError]
    ELSE IF i = 0
    THEN doors_loop(m, storey_list, i + 1, all_doors)
    ELSE LET r == interior_doors_of_storey(m, i, At(storey_list, i))
         IN  IF r.raised # NoError
             THEN [m |-> r.m, ret |-> all_doors, raised |-> r.raised]
             ELSE doors_loop(r.m, storey_list, i + 1, all_doors \o r.doors)

create_doors(m, storey_list) ==
    IF Len(storey_list) < 2
    THEN [m |-> m, ret |-> << >>, raised |-> "IndexError"]        \* storeys[1]
    ELSE LET f == front_door(m, storey_list)
             r == doors_loop(f.m, AllButLast(storey_list), 0, <<f.door>>)
         IN  r

----------------------------------------------------------------------------
(* create_stoop, create_stoop_extrusion                                     *)

create_stoop_extrusion(width, depth, height) ==
    ExtrudedAreaSolid(Rectangle(width, depth), WorldZ, height)

\* Stoop dimensions in tenths of a foot (lines 714-716).
StoopWidthFt == 120
StoopDepthFt == 80
StoopHeightFt == 50

\* The stoop's layer thickness, 0.2 m (line 744).
StoopLayerThickness == 200000

\* A slip: the stoop laid inward from the building line.
stoop_position_inward ==
    <<convert_to_meter(BUILDING_WIDTH) \div 2 - convert_to_meter(StoopWidthFt) \div 2,
      0,
      0>>

\* Line 723.
stoop_position ==
    <<convert_to_meter(BUILDING_WIDTH) \div 2 - convert_to_meter(StoopWidthFt) \div 2,
      -convert_to_meter(StoopDepthFt),
      0>>

\* A slip: the stoop named after what the file holds when it is made.
create_stoop_numbered(m, storey_list) ==
    LET stoop_placement == Placement(stoop_position, WorldZ, WorldX)
        extrusion == create_stoop_extrusion(convert_to_meter(StoopWidthFt),
                                            convert_to_meter(StoopDepthFt),
                                            convert_to_meter(StoopHeightFt))
        m1 == AddElement(m, "IfcStair", "Stoop " \o ToString(Len(m.elements)),
                         stoop_placement, extrusion, "STRAIGHT")
        the_stoop == LastElement(m1)
        m2 == AddUsage(m1, "Brownstone", StoopLayerThickness)
        m3 == AddAssoc(m2, <<the_stoop>>, LastUsage(m2))
    IN  IF Len(storey_list) < 2
        THEN [m |-> m3, ret |-> None, raised |-> "IndexError"]
        ELSE [m |-> AddRel(m3, "Stoop", <<the_stoop>>, At(storey_list, 1)),
              ret |-> the_stoop, raised |-> NoError]

create_stoop(m, storey_list) ==
    LET stoop_placement == Placement(stoop_position, WorldZ, WorldX)
        extrusion == create_stoop_extrusion(convert_to_meter(StoopWidthFt),
                                            convert_to_meter(StoopDepthFt),
                                            convert_to_meter(StoopHeightFt))
        m1 == AddElement(m, "IfcStair", "Front Stoop", stoop_placement, extrusion,
                         "STRAIGHT")
        the_stoop == LastElement(m1)
        m2 == AddUsage(m1, "Brownstone", StoopLayerThickness)
        m3 == AddAssoc(m2, <<the_stoop>>, LastUsage(m2))
    IN  IF Len(storey_list) < 2
        THEN [m |-> m3, ret |-> None, raised |-> "IndexError"]      \* storeys[1]
        ELSE [m |-> AddRel(m3, "Stoop", <<the_stoop>>, At(storey_list, 1)),
              ret |-> the_stoop, raised |-> NoError]

----------------------------------------------------------------------------
(* create_fixtures, create_fixture, create_fixture_extrusion                *)

create_fixture_extrusion(width, depth, height) ==
    ExtrudedAreaSolid(Rectangle(width, depth), WorldZ, height)

\* The layer thickness of a fixture and of an MEP element, 0.05 m (lines 816, 920).
FixtureLayerThickness == 50000

\* Lines 809-812.
fixture_material_name(fixture_type) ==
    IF fixture_type = "SINK" THEN "Porcelain" ELSE "Ceramic"

create_fixture(m, name, position, width, depth, height, fixture_type) ==
    LET fixture_placement == Placement(position, WorldZ, WorldX)
        extrusion == create_fixture_extrusion(width, depth, height)
        m1 == AddElement(m, "IfcSanitaryTerminal", name, fixture_placement, extrusion,
                         fixture_type)
        fixture == LastElement(m1)
        m2 == AddUsage(m1, fixture_material_name(fixture_type), FixtureLayerThickness)
    IN  [m |-> AddAssoc(m2, <<fixture>>, LastUsage(m2)), fixture |-> fixture]

\* Lines 833-845; storey_list has a storey 1.
kitchen_sink(m, storey_list) ==
    create_fixture(m, "Kitchen Sink",
                   <<Times(convert_to_meter(BUILDING_WIDTH), 25),
                     Times(convert_to_meter(BUILDING_DEPTH), 30),
                     At(storey_list, 1).Elevation + convert_to_meter(30)>>,
                   convert_to_meter(30), convert_to_meter(20), convert_to_meter(5),
                   "SINK")

\* One turn of the loop over range(2, 5) (lines 849-882); storey_list has a storey i.
bathroom_of_storey(m, i, storey_list) ==
    LET storey == At(storey_list, i)
        building_width == convert_to_meter(BUILDING_WIDTH)
        building_depth == convert_to_meter(BUILDING_DEPTH)
        t == create_fixture(m, "Toilet Floor " \o ToString(i),
                            <<Times(building_width, 75), Times(building_depth, 25),
                              storey.Elevation + convert_to_meter(0)>>,
                            convert_to_meter(15), convert_to_meter(20),
                            convert_to_meter(10), "WCCISTERN")
        b == create_fixture(t.m, "Bathroom Sink Floor " \o ToString(i),
                            <<Times(building_width, 75), Times(building_depth, 35),
                              storey.Elevation + convert_to_meter(30)>>,
                            convert_to_meter(20), convert_to_meter(15),
                            convert_to_meter(5), "SINK")
    IN  [m |-> AddRel(b.m, "Storey " \o ToString(i) \o " Fixtures",
                      <<t.fixture, b.fixture>>, storey),
         fixtures |-> <<t.fixture, b.fixture>>]

RECURSIVE bathrooms_loop(_, _, _, _)
bathrooms_loop(m, storey_list, i, all_fixtures) ==
    IF i >= 5
    THEN [m |-> m, ret |-> all_fixtures, raised |-> NoError]
    ELSE IF i >= Len(storey_list)
    THEN [m |-> m, ret |-> all_fixtures, raised |-> "IndexError"]   \* storeys[i]
    ELSE LET r == bathroom_of_storey(m, i, storey_list)
         IN  bathrooms_loop(r.m, storey_list, i + 1, all_fixtures \o r.fixtures)

\* A slip: the kitchen sink related to the storey above the one it stands on.
kitchen_relation_one_storey_up(m, sink, storey_list) ==
    AddRel(m, "Kitchen Fixtures", <<sink>>, At(storey_list, 2))

\* A slip: the kitchen sink, made outside the loop, is never related to a storey.
kitchen_relation_forgotten(m, sink, storey_list) == m

\* Relate kitchen fixtures to first floor (lines 884-886).
kitchen_relation(m, sink, storey_list) ==
    AddRel(m, "Kitchen Fixtures", <<sink>>, At(storey_list, 1))

create_fixtures(m, storey_list) ==
    IF Len(storey_list) < 2
    THEN [m |-> m, ret |-> << >>, raised |-> "IndexError"]          \* storeys[1]
    ELSE LET k == kitchen_sink(m, storey_list)
             r == bathrooms_loop(k.m, storey_list, 2, <<k.fixture>>)
         IN  IF r.raised # NoError
             THEN r
             ELSE [m |-> kitchen_relation(r.m, k.fixture, storey_list),
                   ret |-> r.ret, raised |-> NoError]

----------------------------------------------------------------------------
(* create_mep_elements, create_mep_element                                  *)

\* The entity created for an element type (lines 904-915), "" when no branch
\* of the if/elif chain is taken.
mep_entity_type(element_type) ==
    IF element_type = "AIRHANDLER" THEN "IfcUnitaryEquipment"
    ELSE IF element_type = "SWITCHBOARD" THEN "IfcElectricDistributionBoard"
    ELSE IF element_type = "WATERHEATER" THEN "IfcFlowTerminal"
    ELSE ""

\* The predefined type the entity is given: element_type, but None for the
\* water heater (line 915).
mep_predefined(element_type) == IF element_type = "WATERHEATER" THEN "" ELSE element_type

\* With an element_type outside the chain, `element` is unbound when line 925
\* reads it: the material and its layer set usage are in the file by then (and
\* so are the placement and the shape of lines 893-901, which the file of the
\* model keeps only as parts of an element).
create_mep_element(m, name, position, width, depth, height, element_type) ==
    LET element_placement == Placement(position, WorldZ, WorldX)
        extrusion == create_fixture_extrusion(width, depth, height)
        known == mep_entity_type(element_type) # ""
        m1 == IF known
              THEN AddElement(m, mep_entity_type(element_type), name, element_placement,
                              extrusion, mep_predefined(element_type))
              ELSE m
        element == LastElement(m1)
        m2 == AddUsage(m1, "Metal", FixtureLayerThickness)
    IN  IF known
        THEN [m |-> AddAssoc(m2, <<element>>, LastUsage(m2)), element |-> element,
              raised |-> NoError]
        ELSE [m |-> m2, element |-> None, raised |-> "UnboundLocalError"]

\* The three units of the basement, in order: <<name, x and y in hundredths of
\* the footprint, width, depth, height in tenths of a foot, element_type>>
\* (lines 937-977).
mep_catalog ==
    << <<"HVAC System", 20, 20, 60, 40, 20, "AIRHANDLER">>,
       <<"Electrical Panel", 80, 10, 20, 5, 30, "SWITCHBOARD">>,
       <<"Water Heater", 50, 10, 20, 20, 20, "WATERHEATER">> >>

RECURSIVE mep_loop(_, _, _, _)
mep_loop(m, storey_list, units, all_mep_elements) ==
    IF units = << >>
    THEN [m |-> m, ret |-> all_mep_elements, raised |-> NoError]
    ELSE LET u == Head(units)
             r == create_mep_element(m, u[1],
                      <<Times(convert_to_meter(BUILDING_WIDTH), u[2]),
                        Times(convert_to_meter(BUILDING_DEPTH), u[3]),
                        At(storey_list, 0).Elevation + convert_to_meter(10)>>,
                      convert_to_meter(u[4]), convert_to_meter(u[5]),
                      convert_to_meter(u[6]), u[7])
         IN  IF r.raised # NoError
             THEN [m |-> r.m, ret |-> all_mep_elements, raised |-> r.raised]
             ELSE mep_loop(r.m, storey_list, Tail(units), Append(all_mep_elements, r.element))

create_mep_elements(m, storey_list) ==
    IF Len(storey_list) < 1
    THEN [m |-> m, ret |-> << >>, raised |-> "IndexError"]          \* storeys[0]
    ELSE LET r == mep_loop(m, storey_list, mep_catalog, << >>)
         IN  IF r.raised # NoError
             THEN r
             ELSE [m |-> AddRel(r.m, "MEP Systems", r.ret, At(storey_list, 0)),
                   ret |-> r.ret, raised |-> NoError]

----------------------------------------------------------------------------
(* create_brownstone_ifc: one action per generator call, in the order of    *)
(* lines 999-1031.  An exception leaves the function: __main__ catches it,  *)
(* prints it and exits (lines 1052-1054).                                   *)

Heights(default) == {default} \cup {10 * k : k \in 1..MaxAltHeight}

\* <<width, depth, wall thickness, floor thickness, roof thickness>>
DefaultGeometry ==
    <<DefaultBuildingWidth, DefaultBuildingDepth, DefaultWallThickness,
      DefaultFloorThickness, DefaultRoofThickness>>

AltGeometry(k) == <<100 * (k + 1), 100 * (k + 2), 5 * k, 5 * k, 10 * k>>

Geometries == {DefaultGeometry} \cup {AltGeometry(k) : k \in 1..MaxAltGeometry}

\* The geometries with the width, the depth or both set to zero.
DegenerateGeometries ==
    UNION {{[g EXCEPT ![1] = 0], [g EXCEPT ![2] = 0], [g EXCEPT ![1] = 0, ![2] = 0]} :
             g \in Geometries}

Parameters(geometries) ==
    {[BUILDING_WIDTH |-> g[1], BUILDING_DEPTH |-> g[2],
      BASEMENT_HEIGHT |-> h0, FIRST_FLOOR_HEIGHT |-> h1, SECOND_FLOOR_HEIGHT |-> h2,
      THIRD_FLOOR_HEIGHT |-> h3, FOURTH_FLOOR_HEIGHT |-> h4,
      WALL_THICKNESS |-> g[3], FLOOR_THICKNESS |-> g[4], ROOF_THICKNESS |-> g[5]] :
        g \in geometries,
        h0 \in Heights(DefaultBasementHeight), h1 \in Heights(DefaultFirstFloorHeight),
        h2 \in Heights(DefaultSecondFloorHeight), h3 \in Heights(DefaultThirdFloorHeight),
        h4 \in Heights(DefaultFourthFloorHeight)}

DefaultParameters ==
    [BUILDING_WIDTH |-> DefaultBuildingWidth, BUILDING_DEPTH |-> DefaultBuildingDepth,
     BASEMENT_HEIGHT |-> DefaultBasementHeight,
     FIRST_FLOOR_HEIGHT |-> DefaultFirstFloorHeight,
     SECOND_FLOOR_HEIGHT |-> DefaultSecondFloorHeight,
     THIRD_FLOOR_HEIGHT |-> DefaultThirdFloorHeight,
     FOURTH_FLOOR_HEIGHT |-> DefaultFourthFloorHeight,
     WALL_THICKNESS |-> DefaultWallThickness, FLOOR_THICKNESS |-> DefaultFloorThickness,
     ROOF_THICKNESS |-> DefaultRoofThickness]

\* The runs the model tells apart: the outcome of the random source and the
\* reading of the clock.
MaxRun == 2

Runs == [seed : 1..MaxRun, time : 1..MaxRun]

\* No direct call of a constructor yet.
NoCall == [op |-> "", element_type |-> "", ret |-> None, n |-> 0]

\* A fresh file and no local bound yet.
Fresh(run) ==
    /\ model = NewModel(run)
    /\ storeys = << >>
    /\ walls = << >>
    /\ slabs = << >>
    /\ windows = << >>
    /\ doors = << >>
    /\ stoop = None
    /\ fixtures = << >>
    /\ mep_elements = << >>
    /\ written = FALSE
    /\ raised = NoError
    /\ call = NoCall
    /\ previous = << >>
    /\ unmeshable = {}
    /\ type_index = 0
    /\ meshes_by_type = << >>
    /\ entity_count = 0

\* The state when create_brownstone_ifc reaches line 1000.
Start(run) ==
    /\ pc = "storeys"
    /\ Fresh(run)

\* Every parameter positive.  Nothing this specification is checked for reads
\* an identifier or the time stamp: one run stands for all.
Init ==
    /\ params \in Parameters(Geometries)
    /\ Start([seed |-> 1, time |-> 1])

\* A footprint with a side of length zero.
InitDegenerate ==
    /\ params \in Parameters(DegenerateGeometries)
    /\ Start([seed |-> 1, time |-> 1])

\* A slip: the exception swallowed, the build going on with what it has.
After_swallowing(r, next) == next

\* Where a generator's call leaves create_brownstone_ifc.
After(r, next) == IF r.raised = NoError THEN next ELSE "failed"

CreateStoreys ==
    /\ pc = "storeys"
    /\ storeys' = create_storeys
    /\ pc' = "walls"
    /\ UNCHANGED <<params, model, walls, slabs, windows, doors, stoop, fixtures,
                   mep_elements, written, raised, call, previous, viewer_vars>>

CreateWalls ==
    /\ pc = "walls"
    /\ \E none_ok \in BOOLEAN :
         LET r == create_walls(model, storeys, none_ok)
         IN  /\ model' = r.m
             /\ walls' = IF r.raised = NoError THEN r.ret ELSE walls
             /\ raised' = r.raised
             /\ pc' = After(r, "slabs")
    /\ UNCHANGED <<params, storeys, slabs, windows, doors, stoop, fixtures,
                   mep_elements, written, call, previous, viewer_vars>>

CreateSlabs ==
    /\ pc = "slabs"
    /\ LET r == create_slabs(model, storeys)
       IN  /\ model' = r.m
           /\ slabs' = IF r.raised = NoError THEN r.ret ELSE slabs
           /\ raised' = r.raised
           /\ pc' = After(r, "windows")
    /\ UNCHANGED <<params, storeys, walls, windows, doors, stoop, fixtures,
                   mep_elements, written, call, previous, viewer_vars>>

CreateWindows ==
    /\ pc = "windows"
    /\ LET r == create_windows(model, storeys)
       IN  /\ model' = r.m
           /\ windows' = IF r.raised = NoError THEN r.ret ELSE windows
           /\ raised' = r.raised
           /\ pc' = After(r, "doors")
    /\ UNCHANGED <<params, storeys, walls, slabs, doors, stoop, fixtures, mep_elements,
                   written, call, previous, viewer_vars>>

CreateDoors ==
    /\ pc = "doors"
    /\ LET r == create_doors(model, storeys)
       IN  /\ model' = r.m
           /\ doors' = IF r.raised = NoError THEN r.ret ELSE doors
           /\ raised' = r.raised
           /\ pc' = After(r, "stoop")
    /\ UNCHANGED <<params, storeys, walls, slabs, windows, stoop, fixtures,
                   mep_elements, written, call, previous, viewer_vars>>

CreateStoop ==
    /\ pc = "stoop"
    /\ LET r == create_stoop(model, storeys)
       IN  /\ model' = r.m
           /\ stoop' = IF r.raised = NoError THEN r.ret ELSE stoop
           /\ raised' = r.raised
           /\ pc' = After(r, "fixtures")
    /\ UNCHANGED <<params, storeys, walls, slabs, windows, doors, fixtures,
                   mep_elements, written, call, previous, viewer_vars>>

CreateFixtures ==
    /\ pc = "fixtures"
    /\ LET r == create_fixtures(model, storeys)
       IN  /\ model' = r.m
           /\ fixtures' = IF r.raised = NoError THEN r.ret ELSE fixtures
           /\ raised' = r.raised
           /\ pc' = After(r, "mep")
    /\ UNCHANGED <<params, storeys, walls, slabs, windows, doors, stoop, mep_elements,
                   written, call, previous, viewer_vars>>

CreateMepElements ==
    /\ pc = "mep"
    /\ LET r == create_mep_elements(model, storeys)
       IN  /\ model' = r.m
           /\ mep_elements' = IF r.raised = NoError THEN r.ret ELSE mep_elements
           /\ raised' = r.raised
           /\ pc' = After(r, "write")
    /\ UNCHANGED <<params, storeys, walls, slabs, windows, doors, stoop, fixtures,
                   written, call, previous, viewer_vars>>

\* model.write(output_file)
Write ==
    /\ pc = "write"
    /\ written' = TRUE
    /\ pc' = "done"
    /\ UNCHANGED <<params, model, storeys, walls, slabs, windows, doors, stoop,
                   fixtures, mep_elements, raised, call, previous, viewer_vars>>

Next ==
    \/ CreateStoreys
    \/ CreateWalls
    \/ CreateSlabs
    \/ CreateWindows
    \/ CreateDoors
    \/ CreateStoop
    \/ CreateFixtures
    \/ CreateMepElements
    \/ Write

Spec == Init /\ [][Next]_vars

SpecDegenerate == InitDegenerate /\ [][Next]_vars

----------------------------------------------------------------------------
(* create_mep_element called directly, by a caller that hands it any        *)
(* element_type and goes on after an exception.                             *)

\* The element types handed over: the three of the if/elif chain (lines 904,
\* 908, 912) and three it has no branch for.
MepElementTypes == {"AIRHANDLER", "SWITCHBOARD", "WATERHEATER", "PUMP", "BOILER", ""}

\* The number of direct calls explored.
MaxCalls == 3

InitMepCalls ==
    /\ params = DefaultParameters
    /\ pc = "call"
    /\ Fresh([seed |-> 1, time |-> 1])

CallCreateMepElement ==
    /\ pc = "call"
    /\ call.n < MaxCalls
    /\ \E element_type \in MepElementTypes :
         LET r == create_mep_element(model, "Unit " \o ToString(call.n), <<0, 0, 0>>,
                                     convert_to_meter(20), convert_to_meter(20),
                                     convert_to_meter(20), element_type)
         IN  /\ model' = r.m
             /\ raised' = r.raised
             /\ call' = [op |-> "create_mep_element", element_type |-> element_type,
                         ret |-> r.element, n |-> call.n + 1]
             /\ mep_elements' = IF r.raised = NoError
                                THEN Append(mep_elements, r.element)
                                ELSE mep_elements
    /\ UNCHANGED <<params, pc, storeys, walls, slabs, windows, doors, stoop, fixtures,
                   written, previous, viewer_vars>>

NextMepCalls == CallCreateMepElement

SpecMepCalls == InitMepCalls /\ [][NextMepCalls]_vars

----------------------------------------------------------------------------
(* The generators handed a storey list other than create_storeys': shorter, *)
(* or continued past the Roof.                                              *)

\* The longest storey list handed over.
MaxStoreys == 7

\* The first n storeys of create_storeys' list; past its end, further
\* storeys 10 ft apart.
StoreyList(n) ==
    LET made == create_storeys
        top == made[Len(made)].Elevation
    IN  [k \in 1..n |->
           IF k <= Len(made)
           THEN made[k]
           ELSE [id |-> k - 1, Name |-> "Storey " \o ToString(k - 1),
                 Elevation |-> top + (k - Len(made)) * convert_to_meter(100)]]

InitStoreyLists ==
    /\ params \in Parameters({DefaultGeometry})
    /\ Start([seed |-> 1, time |-> 1])

HandOverStoreys ==
    /\ pc = "storeys"
    /\ \E n \in 0..MaxStoreys : storeys' = StoreyList(n)
    /\ pc' = "walls"
    /\ UNCHANGED <<params, model, walls, slabs, windows, doors, stoop, fixtures,
                   mep_elements, written, raised, call, previous, viewer_vars>>

NextStoreyLists ==
    \/ HandOverStoreys
    \/ CreateWalls
    \/ CreateSlabs
    \/ CreateWindows
    \/ CreateDoors
    \/ CreateStoop
    \/ CreateFixtures
    \/ CreateMepElements
    \/ Write

SpecStoreyLists == InitStoreyLists /\ [][NextStoreyLists]_vars

----------------------------------------------------------------------------
(* The generator passes run in any order once create_storeys has returned:  *)
(* the calls of lines 1002-1028, each whole, in every permutation.          *)

Passes == {"walls", "slabs", "windows", "doors", "stoop", "fixtures", "mep"}

\* One generator call on the file m.
RunPass(p, m, storey_list, none_ok) ==
    CASE p = "walls" -> create_walls(m, storey_list, none_ok)
      [] p = "slabs" -> create_slabs(m, storey_list)
      [] p = "windows" -> create_windows(m, storey_list)
      [] p = "doors" -> create_doors(m, storey_list)
      [] p = "stoop" -> create_stoop(m, storey_list)
      [] p = "fixtures" -> create_fixtures(m, storey_list)
      [] p = "mep" -> create_mep_elements(m, storey_list)

\* The local the call of pass p binds is bound.
HasRun(p) ==
    CASE p = "walls" -> walls # << >>
      [] p = "slabs" -> slabs # << >>
      [] p = "windows" -> windows # << >>
      [] p = "doors" -> doors # << >>
      [] p = "stoop" -> stoop # None
      [] p = "fixtures" -> fixtures # << >>
      [] p = "mep" -> mep_elements # << >>

InitAnyOrder ==
    /\ params = DefaultParameters
    /\ Start([seed |-> 1, time |-> 1])

CreateStoreysFirst ==
    /\ pc = "storeys"
    /\ storeys' = create_storeys
    /\ pc' = "passes"
    /\ UNCHANGED <<params, model, walls, slabs, windows, doors, stoop, fixtures,
                   mep_elements, written, raised, call, previous, viewer_vars>>

RunAnyPass ==
    /\ pc = "passes"
    /\ \E p \in {q \in Passes : ~HasRun(q)} :
         \E none_ok \in IF p = "walls" THEN BOOLEAN ELSE {TRUE} :
          \E r \in {RunPass(p, model, storeys, none_ok)} :
            LET ok == r.raised = NoError
            IN  /\ model' = r.m
                /\ raised' = r.raised
                /\ walls' = IF p = "walls" /\ ok THEN r.ret ELSE walls
                /\ slabs' = IF p = "slabs" /\ ok THEN r.ret ELSE slabs
                /\ windows' = IF p = "windows" /\ ok THEN r.ret ELSE windows
                /\ doors' = IF p = "doors" /\ ok THEN r.ret ELSE doors
                /\ stoop' = IF p = "stoop" /\ ok THEN r.ret ELSE stoop
                /\ fixtures' = IF p = "fixtures" /\ ok THEN r.ret ELSE fixtures
                /\ mep_elements' = IF p = "mep" /\ ok THEN r.ret ELSE mep_elements
                /\ pc' = IF ~ok THEN "failed"
                         ELSE IF \A q \in Passes \ {p} : HasRun(q) THEN "write"
                         ELSE "passes"
    /\ UNCHANGED <<params, storeys, written, call, previous, viewer_vars>>

NextAnyOrder ==
    \/ CreateStoreysFirst
    \/ RunAnyPass
    \/ Write

SpecAnyOrder == InitAnyOrder /\ [][NextAnyOrder]_vars

----------------------------------------------------------------------------
(* create_brownstone_ifc run twice with the same parameters: the second run *)
(* starts from a new file, with its own random source and clock.            *)

\* The parameters of Parameters(geometries) with the default floor heights.
DefaultHeightParameters(geometries) ==
    {p \in Parameters(geometries) :
        /\ p.BASEMENT_HEIGHT = DefaultBasementHeight
        /\ p.FIRST_FLOOR_HEIGHT = DefaultFirstFloorHeight
        /\ p.SECOND_FLOOR_HEIGHT = DefaultSecondFloorHeight
        /\ p.THIRD_FLOOR_HEIGHT = DefaultThirdFloorHeight
        /\ p.FOURTH_FLOOR_HEIGHT = DefaultFourthFloorHeight}

InitRerun ==
    /\ params \in DefaultHeightParameters(Geometries)
    /\ \E run \in Runs : Start(run)

\* create_brownstone_ifc called again once it has returned.
Regenerate ==
    /\ pc = "done"
    /\ previous = << >>
    /\ previous' = Append(previous, model)
    /\ \E run \in Runs : model' = NewModel(run)
    /\ pc' = "storeys"
    /\ storeys' = << >>
    /\ walls' = << >>
    /\ slabs' = << >>
    /\ windows' = << >>
    /\ doors' = << >>
    /\ stoop' = None
    /\ fixtures' = << >>
    /\ mep_elements' = << >>
    /\ written' = FALSE
    /\ raised' = NoError
    /\ UNCHANGED <<params, call, viewer_vars>>

NextRerun ==
    \/ Next
    \/ Regenerate

SpecRerun == InitRerun /\ [][NextRerun]_vars

----------------------------------------------------------------------------
(* brownstone-ifc-viewer.py: visualize_ifc on a loaded file.  The file is   *)
(* `model`; an entity is an element's id.  Whether                          *)
(* ifcopenshell.geom.create_shape raises RuntimeError for an entity is the  *)
(* library's answer for that entity, the same each time it is asked:        *)
(* `unmeshable` holds the entities it raises for.                           *)

\* Entity types to visualize (lines 102-106).
entity_types ==
    <<"IfcWallStandardCase", "IfcWall", "IfcSlab", "IfcWindow", "IfcDoor",
      "IfcStair", "IfcSanitaryTerminal", "IfcUnitaryEquipment",
      "IfcElectricDistributionBoard", "IfcFlowTerminal">>

\* The key of setup_style's table (lines 29-41) the mesh takes its colour
\* from (lines 67-71): the table has a key for each of entity_types.
color_key(entity_type) ==
    IF \E k \in 1..Len(entity_types) : entity_types[k] = entity_type
    THEN entity_type
    ELSE "default"

\* The IFC4 schema's supertype of a type, among the types of entity_types.
Supertype(type) ==
    CASE type \in {"IfcWallStandardCase", "IfcWallElementedCase"} -> "IfcWall"
      [] type = "IfcSanitaryTerminal" -> "IfcFlowTerminal"
      [] OTHER -> ""

\* entity.is_a(T)
IsA(type, T) == type = T \/ Supertype(type) = T

\* model.by_type(T): the instances of T and of every subtype of T, in file order.
by_type(m, T) ==
    SelectSeq([e \in 1..Len(m.elements) |-> e], LAMBDA e : IsA(m.elements[e].type, T))

\* Lines 45-81: the mesh, coloured, and entity.is_a().
create_entity_mesh(m, entity, failing) ==
    IF entity \in failing
    THEN [mesh |-> None, entity_type |-> "", raised |-> "RuntimeError"]
    ELSE [mesh |-> [entity |-> entity, color |-> color_key(m.elements[entity].type)],
          entity_type |-> m.elements[entity].type,
          raised |-> NoError]

\* The loop over entities (lines 121-127).  A RuntimeError is printed and the
\* entity skipped; the KeyError of meshes_by_type[actual_type] is not caught.
RECURSIVE entities_loop(_, _, _, _, _)
entities_loop(m, entities, failing, by_type_so_far, count) ==
    IF entities = << >>
    THEN [meshes_by_type |-> by_type_so_far, entity_count |-> count, raised |-> NoError]
    ELSE LET r == create_entity_mesh(m, Head(entities), failing)
         IN  IF r.raised = "RuntimeError"
             THEN entities_loop(m, Tail(entities), failing, by_type_so_far, count)
             ELSE IF r.entity_type \notin DOMAIN by_type_so_far
             THEN [meshes_by_type |-> by_type_so_far, entity_count |-> count,
                   raised |-> "KeyError"]
             ELSE entities_loop(m, Tail(entities), failing,
                                [by_type_so_far EXCEPT ![r.entity_type] = Append(@, r.mesh)],
                                count + 1)

\* The files loaded: up to MaxEntities entities, each of one of these types.
MaxEntities == 2

LoadedTypes ==
    {"IfcWallStandardCase", "IfcWall", "IfcWallElementedCase", "IfcSlab",
     "IfcSanitaryTerminal", "IfcFlowTerminal"}

RECURSIVE LoadedFile(_)
LoadedFile(types) ==
    IF types = << >>
    THEN NewModel([seed |-> 1, time |-> 1])
    ELSE AddElement(LoadedFile(AllButLast(types)), types[Len(types)],
                    "Entity " \o ToString(Len(types)),
                    Placement(<<0, 0, 0>>, WorldZ, WorldX),
                    create_fixture_extrusion(convert_to_meter(10), convert_to_meter(10),
                                             convert_to_meter(10)),
                    "")

LoadedFiles == {LoadedFile(types) : types \in UNION {[1..n -> LoadedTypes] : n \in 0..MaxEntities}}

\* visualize_ifc at line 117: the file open, meshes_by_type initialised.
InitViewer ==
    /\ params = DefaultParameters
    /\ pc = "visualize"
    /\ model \in LoadedFiles
    /\ unmeshable \in SUBSET (1..Len(model.elements))
    /\ type_index = 0
    /\ meshes_by_type = [t \in {entity_types[k] : k \in 1..Len(entity_types)} |-> << >>]
    /\ entity_count = 0
    /\ storeys = << >>
    /\ walls = << >>
    /\ slabs = << >>
    /\ windows = << >>
    /\ doors = << >>
    /\ stoop = None
    /\ fixtures = << >>
    /\ mep_elements = << >>
    /\ written = TRUE
    /\ raised = NoError
    /\ call = NoCall
    /\ previous = << >>

\* One turn of the loop over entity_types (lines 117-127).
ProcessEntityType ==
    /\ pc = "visualize"
    /\ type_index < Len(entity_types)
    /\ \E r \in {entities_loop(model, by_type(model, At(entity_types, type_index)),
                               unmeshable, meshes_by_type, entity_count)} :
          /\ meshes_by_type' = r.meshes_by_type
          /\ entity_count' = r.entity_count
          /\ raised' = r.raised
          /\ type_index' = IF r.raised = NoError THEN type_index + 1 ELSE type_index
          /\ pc' = IF r.raised = NoError THEN "visualize" ELSE "failed"
    /\ UNCHANGED <<params, model, storeys, walls, slabs, windows, doors, stoop, fixtures,
                   mep_elements, written, call, previous, unmeshable>>

\* Lines 129-164: the meshes handed to the plotter, entity_count printed,
\* the window shown.
ShowVisualization ==
    /\ pc = "visualize"
    /\ type_index = Len(entity_types)
    /\ pc' = "shown"
    /\ UNCHANGED <<params, model, storeys, walls, slabs, windows, doors, stoop, fixtures,
                   mep_elements, written, raised, call, previous, viewer_vars>>

NextViewer ==
    \/ ProcessEntityType
    \/ ShowVisualization

SpecViewer == InitViewer /\ [][NextViewer]_vars

----------------------------------------------------------------------------
(* What the properties below read off a state.                              *)

PcOrder ==
    <<"storeys", "walls", "slabs", "windows", "doors", "stoop", "fixtures", "mep",
      "write", "done">>

\* The call of create_brownstone_ifc at position `step` has returned.
Returned(step) ==
    \E a, b \in 1..Len(PcOrder) : PcOrder[a] = step /\ PcOrder[b] = pc /\ a < b

ElementIds == 1..Len(model.elements)

Element(e) == model.elements[e]

ElementsOfType(type) == {e \in ElementIds : Element(e).type = type}

\* The places <<relation, position>> of element e in the containment relations.
Occurrences(e) ==
    UNION {{<<r, k>> : k \in {k \in 1..Len(model.rels[r].RelatedElements) :
                                model.rels[r].RelatedElements[k] = e}} :
             r \in 1..Len(model.rels)}

\* The ids of the storeys element e is contained in.
StoreysOf(e) == {model.rels[o[1]].RelatingStructure : o \in Occurrences(e)}

\* The elements contained in the storey with id s.
ContainedIn(s) ==
    UNION {{model.rels[r].RelatedElements[k] : k \in 1..Len(model.rels[r].RelatedElements)} :
             r \in {r \in 1..Len(model.rels) : model.rels[r].RelatingStructure = s}}

\* The material names associated with element e.
MaterialsOf(e) ==
    {model.usages[model.assocs[a].RelatingMaterial].Material :
        a \in {a \in 1..Len(model.assocs) :
                 \E k \in 1..Len(model.assocs[a].RelatedObjects) :
                    model.assocs[a].RelatedObjects[k] = e}}

Elevation(i) == At(storeys, i).Elevation

Location(e) == Element(e).ObjectPlacement.Location

Solid(e) == Element(e).Representation

\* The box a solid placed in the world frame and extruded along Z fills:
\* <<x0, x1, y0, y1, z0, z1>>.
IsUprightBox(e, x0, x1, y0, y1, z0, z1) ==
    /\ Element(e).ObjectPlacement.Axis = <<0, 0, 1>>
    /\ Element(e).ObjectPlacement.RefDirection = <<1, 0, 0>>
    /\ Solid(e).ExtrudedDirection = <<0, 0, 1>>
    /\ Solid(e).points = << <<0, 0>>, <<x1 - x0, 0>>, <<x1 - x0, y1 - y0>>,
                            <<0, y1 - y0>>, <<0, 0>> >>
    /\ Location(e) = <<x0, y0, z0>>
    /\ Solid(e).Depth = z1 - z0

Width == params.BUILDING_WIDTH * FOOT_TO_METER
Depth == params.BUILDING_DEPTH * FOOT_TO_METER
FloorThickness == params.FLOOR_THICKNESS * FOOT_TO_METER
RoofThickness == params.ROOF_THICKNESS * FOOT_TO_METER

\* The nominal height of storey i, in tenths of a foot.
NominalHeight(i) ==
    CASE i = 0 -> params.BASEMENT_HEIGHT
      [] i = 1 -> params.FIRST_FLOOR_HEIGHT
      [] i = 2 -> params.SECOND_FLOOR_HEIGHT
      [] i = 3 -> params.THIRD_FLOOR_HEIGHT
      [] i = 4 -> params.FOURTH_FLOOR_HEIGHT

----------------------------------------------------------------------------
(* C1.  After a complete run every generated element is listed in the       *)
(* containment relations exactly once: under one storey, in one relation,   *)
(* at one position.                                                         *)

C1_EveryElementInExactlyOneStorey ==
    pc = "done" =>
        /\ \A e \in ElementIds :
              /\ Cardinality(Occurrences(e)) = 1
              /\ Cardinality(StoreysOf(e)) = 1
              /\ \E i \in 0..5 : StoreysOf(e) = {storeys[i + 1].id}
        /\ \A r \in 1..Len(model.rels) :
              \A k \in 1..Len(model.rels[r].RelatedElements) :
                 model.rels[r].RelatedElements[k] \in ElementIds

C1_Witness ==
    /\ pc = "done"
    /\ \A type \in {"IfcWallStandardCase", "IfcSlab", "IfcWindow", "IfcDoor", "IfcStair",
                    "IfcSanitaryTerminal", "IfcUnitaryEquipment",
                    "IfcElectricDistributionBoard", "IfcFlowTerminal"} :
          ElementsOfType(type) # {}

----------------------------------------------------------------------------
(* C2.  The six storeys are Basement, First..Fourth Floor, Roof in that     *)
(* order; elevations strictly increase, the basement's is negative, the     *)
(* ground floor's is 0, and each step equals the nominal height of the      *)
(* storey below (so the roof's elevation is the top of the fourth floor).   *)

C2_ElevationsAreRunningSum ==
    Returned("storeys") =>
        /\ Len(storeys) = 6
        /\ [k \in 1..6 |-> storeys[k].Name] =
              <<"Basement", "First Floor", "Second Floor", "Third Floor",
                "Fourth Floor", "Roof">>
        /\ Elevation(0) < 0
        /\ Elevation(1) = 0
        /\ \A i \in 0..4 :
              /\ Elevation(i) < Elevation(i + 1)
              /\ Elevation(i + 1) - Elevation(i) = NominalHeight(i) * FOOT_TO_METER

C2_Witness ==
    /\ Returned("storeys")
    /\ params.SECOND_FLOOR_HEIGHT # params.THIRD_FLOOR_HEIGHT
    /\ params.FOURTH_FLOOR_HEIGHT # DefaultFourthFloorHeight

----------------------------------------------------------------------------
(* C3.  When create_walls returns it has made 4 walls for the basement, 7  *)
(* for each of the four floors above it (4 perimeter, 1 corridor, 2 cross   *)
(* walls) and none for the roof storey: 32 walls.                           *)

WallsOf(s) == ContainedIn(s) \cap ElementsOfType("IfcWallStandardCase")

WallsNamed(s, names) == {e \in WallsOf(s) : Element(e).Name \in names}

PerimeterNames == {"Front Wall", "Back Wall", "Left Wall", "Right Wall"}

C3_WallCounts ==
    pc = "slabs" =>
        /\ Cardinality(WallsOf(0)) = 4
        /\ Cardinality(WallsNamed(0, PerimeterNames)) = 4
        /\ \A s \in 1..4 :
              /\ Cardinality(WallsOf(s)) = 7
              /\ Cardinality(WallsNamed(s, PerimeterNames)) = 4
              /\ Cardinality(WallsNamed(s, {"Corridor Wall"})) = 1
              /\ Cardinality(WallsNamed(s, {"Cross Wall 1", "Cross Wall 2"})) = 2
        /\ WallsOf(5) = {}
        /\ Cardinality(ElementsOfType("IfcWallStandardCase")) = 32
        /\ Len(walls) = 32
        /\ {walls[k] : k \in 1..Len(walls)} = ElementsOfType("IfcWallStandardCase")

C3_Witness ==
    /\ pc = "slabs"
    /\ Len(storeys) = 6
    /\ ElementsOfType("IfcWallStandardCase") # {}

----------------------------------------------------------------------------
(* C4.  When create_slabs returns it has made one slab per boundary between *)
(* consecutive storeys (5 for the 6 storeys) and one roof slab: 6 slabs.    *)

SlabTop(e) == Location(e)[3] + Solid(e).Depth

\* The slabs whose top face is at the elevation of storey i + 1.
BoundarySlabs(i) == {e \in ElementsOfType("IfcSlab") : SlabTop(e) = Elevation(i + 1)}

C4_SlabCounts ==
    pc = "windows" =>
        /\ Len(slabs) = 6
        /\ Cardinality(ElementsOfType("IfcSlab")) = 6
        /\ {slabs[k] : k \in 1..Len(slabs)} = ElementsOfType("IfcSlab")
        /\ \A i \in 0..4 : Cardinality(BoundarySlabs(i)) = 1
        /\ Cardinality({e \in ElementsOfType("IfcSlab") : Element(e).Name = "Roof Slab"}) = 1
        /\ \A e \in ElementsOfType("IfcSlab") :
              Element(e).Name = "Roof Slab" => \A i \in 0..4 : e \notin BoundarySlabs(i)

C4_Witness ==
    /\ pc = "windows"
    /\ Len(storeys) = 6
    /\ \E e \in ElementsOfType("IfcSlab") : Element(e).Name = "Floor 1"

----------------------------------------------------------------------------
(* C5.  When create_windows returns, each of the storeys 0..4 has on the    *)
(* front facade (y = 0) and on the back facade (y = depth) N windows, N = 2 *)
(* in the basement and 3 elsewhere, and window j of width w is at           *)
(* x = L*(j+1)/(N+1) - w/2 on the facade of length L; for N = 3 that is     *)
(* L/4 - w/2, L/2 - w/2, 3L/4 - w/2, and the window centres are symmetric   *)
(* about the facade's midpoint.                                             *)

WindowsOf(s) == ContainedIn(s) \cap ElementsOfType("IfcWindow")

FacadeWindows(s, y) == {e \in WindowsOf(s) : Location(e)[2] = y}

WindowWidth(e) == Solid(e).points[2][1]

ExpectedWindowCount(i) == IF i = 0 THEN 2 ELSE 3

\* x = L*(j+1)/(N+1) - w/2, cleared of its divisions.
AtEvenPosition(e, n, j) ==
    (n + 1) * (2 * Location(e)[1] + WindowWidth(e)) = 2 * Width * (j + 1)

C5_FacadeEvenlySpaced(i, side, y) ==
    LET n == ExpectedWindowCount(i)
        F == FacadeWindows(i, y)
    IN  /\ Cardinality(F) = n
        /\ \A j \in 0..(n - 1) :
              \E e \in F :
                 /\ Element(e).Name = side \o " Window " \o ToString(i) \o "-" \o ToString(j)
                 /\ AtEvenPosition(e, n, j)
                 /\ n = 3 => 4 * Location(e)[1] + 2 * WindowWidth(e) = Width * (j + 1)
        /\ \A e \in F :
              \E f \in F :
                 (2 * Location(e)[1] + WindowWidth(e))
                 + (2 * Location(f)[1] + WindowWidth(f)) = 2 * Width

C5_WindowPositions ==
    pc = "doors" =>
        \A i \in 0..4 :
           /\ C5_FacadeEvenlySpaced(i, "Front", 0)
           /\ C5_FacadeEvenlySpaced(i, "Back", Depth)

C5_Witness ==
    /\ pc = "doors"
    /\ Cardinality(FacadeWindows(0, 0)) = 2
    /\ Cardinality(FacadeWindows(3, Depth)) = 3
    /\ params.BUILDING_WIDTH # DefaultBuildingWidth

----------------------------------------------------------------------------
(* C6.  When create_doors returns there is exactly one front door, placed   *)
(* at (width/2 - doorWidth/2, 0, elevation of storey 1) and contained in    *)
(* the ground-floor storey (index 1) only.                                  *)

FrontDoors == {e \in ElementsOfType("IfcDoor") : Element(e).Name = "Front Door"}

C6_OneFrontDoor ==
    pc = "stoop" =>
        /\ Cardinality(FrontDoors) = 1
        /\ {e \in ElementsOfType("IfcDoor") : Location(e)[2] = 0} = FrontDoors
        /\ \A e \in FrontDoors :
              /\ Solid(e).points[2][1] = 40 * FOOT_TO_METER
              /\ 2 * Location(e)[1] + Solid(e).points[2][1] = Width
              /\ Location(e)[2] = 0
              /\ Location(e)[3] = Elevation(1)
              /\ Cardinality(Occurrences(e)) = 1
              /\ StoreysOf(e) = {At(storeys, 1).id}
              /\ At(storeys, 1).Name = "First Floor"

C6_Witness ==
    /\ pc = "stoop"
    /\ FrontDoors # {}
    /\ Cardinality(ElementsOfType("IfcDoor")) > 1

----------------------------------------------------------------------------
(* C7.  A wall request whose start and end coincide in plan makes no        *)
(* element, raises no error, and leaves no entry, not even a None, in the   *)
(* storey's containment relation or in the list create_walls returns.       *)
(* Checked with a footprint side of length zero (SpecDegenerate).           *)

C7_DegenerateWallLeavesNoEntry ==
    pc \notin {"storeys", "walls"} =>
        /\ pc # "failed"
        /\ \A r \in 1..Len(model.rels) :
              \A k \in 1..Len(model.rels[r].RelatedElements) :
                 model.rels[r].RelatedElements[k] # None
        /\ \A k \in 1..Len(walls) : walls[k] # None
        /\ \A e \in ElementsOfType("IfcWallStandardCase") : Solid(e).points[2][1] > 0

----------------------------------------------------------------------------
(* C8.  For every i in 0..4 the slab of the boundary between storey i and   *)
(* storey i+1 spans the footprint (0..width by 0..depth), is placed at      *)
(* z = elevation[i+1] - floorThickness and is extruded upward by            *)
(* floorThickness: its top face is at elevation[i+1].                       *)

C8_BoundarySlabGeometry ==
    pc = "windows" =>
        \A i \in 0..4 :
           /\ Element(At(slabs, i)).type = "IfcSlab"
           /\ IsUprightBox(At(slabs, i), 0, Width, 0, Depth,
                           Elevation(i + 1) - FloorThickness, Elevation(i + 1))
           /\ SlabTop(At(slabs, i)) = Elevation(i + 1)

C8_Witness ==
    /\ pc = "windows"
    /\ Len(slabs) = 6
    /\ params.FLOOR_THICKNESS # DefaultFloorThickness
    /\ Location(At(slabs, 0))[3] < 0

----------------------------------------------------------------------------
(* C9, as claimed.  Among the five boundary slabs the one whose top is at   *)
(* the Fourth Floor's elevation (the slab below the topmost occupied        *)
(* storey) is the one named "Roof" and typed ROOF; the others are FLOOR.    *)

C9_RoofTagBelowFourthFloor ==
    pc = "windows" =>
        \A i \in 0..4 :
           \A e \in BoundarySlabs(i) :
              IF i = 3
              THEN Element(e).Name = "Roof" /\ Element(e).PredefinedType = "ROOF"
              ELSE Element(e).Name # "Roof" /\ Element(e).PredefinedType = "FLOOR"

(* C9, amended.  Among the five boundary slabs the one whose top is at the  *)
(* roof storey's elevation (the slab above the topmost occupied storey, the *)
(* last of the loop) is the one named "Roof" and typed ROOF; every other    *)
(* boundary slab is typed FLOOR.                                            *)

C9_RoofTagOnTopBoundarySlab ==
    pc = "windows" =>
        \A i \in 0..4 :
           /\ BoundarySlabs(i) # {}
           /\ \A e \in BoundarySlabs(i) :
                 IF i = 4
                 THEN Element(e).Name = "Roof" /\ Element(e).PredefinedType = "ROOF"
                 ELSE Element(e).Name # "Roof" /\ Element(e).PredefinedType = "FLOOR"

C9_Witness ==
    /\ pc = "windows"
    /\ \E e \in BoundarySlabs(4) : Element(e).PredefinedType = "ROOF"
    /\ \E e \in BoundarySlabs(3) : Element(e).PredefinedType = "FLOOR"

----------------------------------------------------------------------------
(* C10.  The roof slab made after the loop has its bottom at the roof       *)
(* storey's elevation (no downward offset), spans the footprint, is         *)
(* extruded upward by roofThickness, carries the "Roof Membrane" material   *)
(* and is contained in the roof storey only.                                *)

RoofSlabs == {e \in ElementsOfType("IfcSlab") : Element(e).Name = "Roof Slab"}

C10_RoofSlab ==
    pc = "windows" =>
        /\ RoofSlabs = {At(slabs, 5)}
        /\ \A e \in RoofSlabs :
              /\ IsUprightBox(e, 0, Width, 0, Depth, Elevation(5), Elevation(5) + RoofThickness)
              /\ Location(e)[3] = At(storeys, Len(storeys) - 1).Elevation
              /\ MaterialsOf(e) = {"Roof Membrane"}
              /\ Cardinality(Occurrences(e)) = 1
              /\ StoreysOf(e) = {At(storeys, 5).id}
              /\ At(storeys, 5).Name = "Roof"

C10_Witness ==
    /\ pc = "windows"
    /\ RoofSlabs # {}
    /\ params.ROOF_THICKNESS # params.FLOOR_THICKNESS

----------------------------------------------------------------------------
(* C11.  When create_walls returns, every wall of storey 0 is associated    *)
(* with the material "Concrete" and no other, every wall of storey 1 or 2  *)
(* with "Brownstone", every wall of storey 3 or higher with "Brick", and    *)
(* every wall made is a wall of one of these storeys.                       *)

ExpectedWallMaterial(s) ==
    IF s = 0 THEN "Concrete" ELSE IF s \in {1, 2} THEN "Brownstone" ELSE "Brick"

C11_WallMaterialByStorey ==
    pc = "slabs" =>
        /\ \A s \in 0..5 :
              \A e \in WallsOf(s) : MaterialsOf(e) = {ExpectedWallMaterial(s)}
        /\ ElementsOfType("IfcWallStandardCase") = UNION {WallsOf(s) : s \in 0..5}
        /\ \A u \in 1..Len(model.usages) :
              model.usages[u].Material \in {"Concrete", "Brownstone", "Brick"}

C11_Witness ==
    /\ pc = "slabs"
    /\ \E e \in WallsOf(0) : MaterialsOf(e) = {"Concrete"}
    /\ \E e \in WallsOf(2) : MaterialsOf(e) = {"Brownstone"}
    /\ \E e \in WallsOf(3) : MaterialsOf(e) = {"Brick"}
    /\ \E e \in WallsOf(4) : MaterialsOf(e) = {"Brick"}

----------------------------------------------------------------------------
(* C12.  When create_doors returns, each of the storeys 1..4 contains       *)
(* exactly two interior doors, one at x = width/3 and one at x = 2*width/3, *)
(* both at y = depth/2 and at z = the storey's elevation; the basement and  *)
(* the roof storey contain no interior door; there are 1 + 2*4 = 9 doors.   *)

InteriorDoorsOf(s) == (ContainedIn(s) \cap ElementsOfType("IfcDoor")) \ FrontDoors

\* x = width * k / 3 and y = depth / 2, cleared of their divisions.
AtCorridorThird(e, k, s) ==
    /\ 3 * Location(e)[1] = Width * k
    /\ 2 * Location(e)[2] = Depth
    /\ Location(e)[3] = Elevation(s)

C12_InteriorDoors ==
    pc = "stoop" =>
        /\ \A s \in 1..4 :
              /\ Cardinality(InteriorDoorsOf(s)) = 2
              /\ \A k \in 1..2 :
                    Cardinality({e \in InteriorDoorsOf(s) : AtCorridorThird(e, k, s)}) = 1
              /\ \A e \in InteriorDoorsOf(s) : Cardinality(Occurrences(e)) = 1
        /\ InteriorDoorsOf(0) = {}
        /\ InteriorDoorsOf(5) = {}
        /\ Cardinality(ElementsOfType("IfcDoor")) = 9
        /\ Len(doors) = 9
        /\ {doors[k] : k \in 1..Len(doors)} = ElementsOfType("IfcDoor")

C12_Witness ==
    /\ pc = "stoop"
    /\ \E e \in InteriorDoorsOf(4) : AtCorridorThird(e, 2, 4)
    /\ \E e \in InteriorDoorsOf(1) : AtCorridorThird(e, 1, 1)
    /\ params.BUILDING_WIDTH # DefaultBuildingWidth

----------------------------------------------------------------------------
(* C13.  When create_windows returns, every storey 0..4 has as many windows *)
(* on the back facade (y = depth) as on the front facade (y = 0), at the    *)
(* same x positions, and all windows of a storey have one (width, height)   *)
(* pair; the basement has 2 windows per facade, every storey above it has 3 *)
(* and strictly wider windows than the basement; the roof storey has none.  *)

WindowHeight(e) == Solid(e).points[3][2]

WindowSizesOf(s) == {<<WindowWidth(e), WindowHeight(e)>> : e \in WindowsOf(s)}

FacadeXs(s, y) == {Location(e)[1] : e \in FacadeWindows(s, y)}

----------------------------------------------------------------------------
(* C14.  When create_stoop returns there is exactly one IfcStair.  Its      *)
(* footprint is the 12 ft by 8 ft rectangle with x from width/2 - 6 ft to   *)
(* width/2 + 6 ft and y from -8 ft to 0; it is placed at the elevation of   *)
(* storey 1, extruded along +Z by 5 ft, associated with "Brownstone" only   *)
(* and contained in storey 1 only.                                          *)

Stairs == ElementsOfType("IfcStair")

StoopWidth == 120 * FOOT_TO_METER
StoopDepth == 80 * FOOT_TO_METER
StoopHeight == 50 * FOOT_TO_METER

C14_Stoop ==
    pc = "fixtures" =>
        /\ Stairs = {stoop}
        /\ \A e \in Stairs :
              /\ 2 * Location(e)[1] = Width - StoopWidth
              /\ IsUprightBox(e, Location(e)[1], Location(e)[1] + StoopWidth,
                              -StoopDepth, 0, Elevation(1), Elevation(1) + StoopHeight)
              /\ MaterialsOf(e) = {"Brownstone"}
              /\ Cardinality(Occurrences(e)) = 1
              /\ StoreysOf(e) = {At(storeys, 1).id}
              /\ At(storeys, 1).Name = "First Floor"

C14_Witness ==
    /\ pc = "fixtures"
    /\ stoop \in Stairs
    /\ Location(stoop)[2] < 0
    /\ params.BUILDING_WIDTH # DefaultBuildingWidth
    /\ params.FIRST_FLOOR_HEIGHT # DefaultFirstFloorHeight

----------------------------------------------------------------------------
(* C15.  When create_mep_elements returns: storey 1 contains exactly one    *)
(* sanitary terminal, the kitchen sink; each of the storeys 2, 3, 4         *)
(* contains exactly one toilet and one bathroom sink; the basement contains *)
(* exactly one HVAC unit, one switchboard and one water heater; no storey   *)
(* contains any other fixture or MEP unit; and every such element's z is    *)
(* the elevation of the storey that contains it plus a fixed offset (0 for  *)
(* a toilet, 3 ft for a sink, 1 ft for an MEP unit).                        *)

Fixtures == ElementsOfType("IfcSanitaryTerminal")

MepTypes == {"IfcUnitaryEquipment", "IfcElectricDistributionBoard", "IfcFlowTerminal"}

MepUnits == UNION {ElementsOfType(t) : t \in MepTypes}

FixturesOf(s) == ContainedIn(s) \cap Fixtures

MepUnitsOf(s) == ContainedIn(s) \cap MepUnits

\* Element e is contained in storey s only and stands `offset` tenths of a
\* foot above that storey's elevation.
StandsOn(e, s, offset) ==
    /\ StoreysOf(e) = {s}
    /\ Cardinality(Occurrences(e)) = 1
    /\ Location(e)[3] = Elevation(s) + offset * FOOT_TO_METER

C15_FloorBandPolicy ==
    pc = "write" =>
        /\ Cardinality(FixturesOf(1)) = 1
        /\ \A e \in FixturesOf(1) :
              /\ Element(e).Name = "Kitchen Sink"
              /\ Element(e).PredefinedType = "SINK"
              /\ StandsOn(e, 1, 30)
        /\ \A s \in 2..4 :
              /\ Cardinality(FixturesOf(s)) = 2
              /\ Cardinality({e \in FixturesOf(s) :
                                /\ Element(e).Name = "Toilet Floor " \o ToString(s)
                                /\ Element(e).PredefinedType = "WCCISTERN"
                                /\ StandsOn(e, s, 0)}) = 1
              /\ Cardinality({e \in FixturesOf(s) :
                                /\ Element(e).Name = "Bathroom Sink Floor " \o ToString(s)
                                /\ Element(e).PredefinedType = "SINK"
                                /\ StandsOn(e, s, 30)}) = 1
        /\ Cardinality(MepUnitsOf(0)) = 3
        /\ \A t \in MepTypes : Cardinality(MepUnitsOf(0) \cap ElementsOfType(t)) = 1
        /\ \A e \in MepUnitsOf(0) : StandsOn(e, 0, 10)
        /\ \A e \in MepUnitsOf(0) :
              Element(e).Name \in {"HVAC System", "Electrical Panel", "Water Heater"}
        /\ FixturesOf(0) = {}
        /\ FixturesOf(5) = {}
        /\ \A s \in 1..5 : MepUnitsOf(s) = {}
        /\ Fixtures = UNION {FixturesOf(s) : s \in 1..4}
        /\ MepUnits = MepUnitsOf(0)

C15_Witness ==
    /\ pc = "write"
    /\ Cardinality(Fixtures) = 7
    /\ Cardinality(MepUnits) = 3
    /\ params.BASEMENT_HEIGHT # DefaultBasementHeight
    /\ params.SECOND_FLOOR_HEIGHT # DefaultSecondFloorHeight

----------------------------------------------------------------------------
(* C16.  A call of create_mep_element with an element_type outside          *)
(* {AIRHANDLER, SWITCHBOARD, WATERHEATER} fails with the unsupported        *)
(* category condition and returns no element.  Checked over direct calls    *)
(* (SpecMepCalls).                                                          *)

MepCatalogTypes == {"AIRHANDLER", "SWITCHBOARD", "WATERHEATER"}

C16_UnknownTypeIsUnsupportedCategory ==
    (call.op = "create_mep_element" /\ call.element_type \notin MepCatalogTypes) =>
        /\ raised = "UnsupportedCategory"
        /\ call.ret = None

----------------------------------------------------------------------------
(* C17.  When the storey list handed to the generators lacks an index one   *)
(* of them uses (fewer than 5 storeys: storeys[1] in create_doors and       *)
(* create_stoop, storeys[2..4] in create_fixtures, storeys[0] in            *)
(* create_mep_elements, storeys[-1] in create_slabs) or has more occupied   *)
(* storeys than wall_heights has entries (more than 6 storeys), the build   *)
(* stops with an IndexError at the first generator that needs the index:    *)
(* no generator after it runs, nothing is taken from the failed state, and  *)
(* model.write is never reached.  Checked over storey lists of 0 to         *)
(* MaxStoreys storeys (SpecStoreyLists).                                    *)

IndexOutOfRange == Len(storeys) < 5 \/ Len(storeys) - 1 > 5

\* The position of create_brownstone_ifc at which the storey list first
\* lacks an index.
FirstToFail ==
    CASE Len(storeys) > 6 -> "walls"
      [] Len(storeys) = 0 -> "slabs"
      [] Len(storeys) = 1 -> "doors"
      [] Len(storeys) \in 2..4 -> "fixtures"
      [] OTHER -> "done"

PcPosition(p) == CHOOSE a \in 1..Len(PcOrder) : PcOrder[a] = p

C17_State ==
    /\ pc = "failed" =>
          /\ raised = "IndexError"
          /\ IndexOutOfRange
          /\ ~written
          /\ mep_elements = << >>
          /\ Len(storeys) < 2 => (doors = << >> /\ stoop = None /\ fixtures = << >>)
          /\ Len(storeys) > 6 => (walls = << >> /\ slabs = << >> /\ windows = << >>)
    /\ (pc \notin {"storeys", "failed"} /\ IndexOutOfRange) =>
          /\ PcPosition(pc) <= PcPosition(FirstToFail)
          /\ ~written
    /\ written => Len(storeys) \in {5, 6}

C17_IndexErrorIsFatal == [](C17_State) /\ [][pc # "failed"]_vars

C17_Witness ==
    /\ pc = "failed"
    /\ raised = "IndexError"
    /\ Len(storeys) = 4
    /\ Len(model.elements) > 0
    /\ doors # << >>

----------------------------------------------------------------------------
(* C18.  With the generator passes run in any order after create_storeys    *)
(* (SpecAnyOrder), every order completes without an exception and leaves a  *)
(* file with the same elements (type, name, placement, solid, predefined    *)
(* type), the same material of each element and the same elements under     *)
(* each storey as the order of create_brownstone_ifc: walls, slabs,         *)
(* windows, doors, stoop, fixtures, MEP.                                    *)

\* An element of file m without its identifier.
ContentOf(m, e) ==
    [type |-> m.elements[e].type, Name |-> m.elements[e].Name,
     ObjectPlacement |-> m.elements[e].ObjectPlacement,
     Representation |-> m.elements[e].Representation,
     PredefinedType |-> m.elements[e].PredefinedType,
     OverallHeight |-> m.elements[e].OverallHeight]

ElementContents(m) == {ContentOf(m, e) : e \in 1..Len(m.elements)}

\* The pairs of an element and a layer set usage it is associated with.
MaterialLinks(m) ==
    UNION {{<<ContentOf(m, m.assocs[a].RelatedObjects[k]),
              m.usages[m.assocs[a].RelatingMaterial]>> :
               k \in 1..Len(m.assocs[a].RelatedObjects)} :
             a \in 1..Len(m.assocs)}

\* The pairs of a storey's id and an element contained in it.
Memberships(m) ==
    UNION {{<<m.rels[r].RelatingStructure, ContentOf(m, m.rels[r].RelatedElements[k])>> :
               k \in 1..Len(m.rels[r].RelatedElements)} :
             r \in 1..Len(m.rels)}

\* The order of the calls in create_brownstone_ifc.
SequentialOrder == <<"walls", "slabs", "windows", "doors", "stoop", "fixtures", "mep">>

\* The file the passes of `order`, run on file m in turn, leave.
RECURSIVE FileAfter(_, _)
FileAfter(order, m) ==
    IF order = << >>
    THEN m
    ELSE LET r == RunPass(Head(order), m, storeys, TRUE)
         IN  IF r.raised # NoError THEN r.m ELSE FileAfter(Tail(order), r.m)

\* The file the calls of lines 1002-1028 leave, in their order.
SequentialFile ==
    FileAfter(SequentialOrder,
              NewModel([seed |-> model.seed, time |-> model.owner_history.CreationDate]))

SameGraph(m, n) ==
    /\ Len(m.elements) = Len(n.elements)
    /\ Len(m.assocs) = Len(n.assocs)
    /\ Len(m.rels) = Len(n.rels)
    /\ Cardinality(ElementContents(m)) = Len(m.elements)
    /\ ElementContents(m) = ElementContents(n)
    /\ MaterialLinks(m) = MaterialLinks(n)
    /\ Memberships(m) = Memberships(n)

----------------------------------------------------------------------------
(* C19.  When create_brownstone_ifc has run twice with the same parameters  *)
(* (SpecRerun), the second file has, entity for entity in creation order,   *)
(* the same elements (type, name, placement, solid, predefined type), layer *)
(* set usages, material associations and containment relations as the       *)
(* first, hence the same number of elements of every type and the same      *)
(* storey for each; and when the random sources of the two runs differ, no  *)
(* identifier of the first file occurs in the second.                       *)

\* File m without the identifiers and the time stamp.
WithoutIds(m) ==
    [elements |-> [e \in 1..Len(m.elements) |-> ContentOf(m, e)],
     usages |-> m.usages,
     assocs |-> [a \in 1..Len(m.assocs) |->
                   [RelatedObjects |-> m.assocs[a].RelatedObjects,
                    RelatingMaterial |-> m.assocs[a].RelatingMaterial]],
     rels |-> [r \in 1..Len(m.rels) |->
                 [Name |-> m.rels[r].Name,
                  RelatedElements |-> m.rels[r].RelatedElements,
                  RelatingStructure |-> m.rels[r].RelatingStructure]]]

GlobalIds(m) ==
    {m.elements[e].GlobalId : e \in 1..Len(m.elements)}
    \cup {m.assocs[a].GlobalId : a \in 1..Len(m.assocs)}
    \cup {m.rels[r].GlobalId : r \in 1..Len(m.rels)}

CountOfType(m, type) == Cardinality({e \in 1..Len(m.elements) : m.elements[e].type = type})

----------------------------------------------------------------------------
(* C20.  In every step of the build the containment relations already in    *)
(* the file stay as they are, so every pair of an element and the storey it *)
(* is registered under is still there afterwards and each storey's          *)
(* membership only grows; what a step adds to a storey it adds for elements *)
(* made in that step, never for an element an earlier step registered.      *)

\* The pairs <<element, storey id>> of the containment relations of file m.
Registered(m) ==
    UNION {{<<m.rels[r].RelatedElements[k], m.rels[r].RelatingStructure>> :
               k \in 1..Len(m.rels[r].RelatedElements)} :
             r \in 1..Len(m.rels)}

MembersOf(m, s) == {p[1] : p \in {q \in Registered(m) : q[2] = s}}

C20_Step ==
    /\ Len(model.rels) <= Len(model'.rels)
    /\ SubSeq(model'.rels, 1, Len(model.rels)) = model.rels
    /\ SubSeq(model'.elements, 1, Len(model.elements)) = model.elements
    /\ Registered(model) \subseteq Registered(model')
    /\ \A s \in 0..5 : MembersOf(model, s) \subseteq MembersOf(model', s)
    /\ \A p \in Registered(model') \ Registered(model) : p[1] > Len(model.elements)

C20_MembershipOnlyGrows == [][C20_Step]_vars

\* Storey 1 holds what four passes registered: walls, a slab, windows, doors.
C20_Witness ==
    /\ pc = "stoop"
    /\ WallsOf(1) # {}
    /\ WindowsOf(1) # {}
    /\ ContainedIn(1) \cap ElementsOfType("IfcSlab") # {}
    /\ ContainedIn(1) \cap ElementsOfType("IfcDoor") # {}


----------------------------------------------------------------------------
(* C21.  No two distinct walls of one storey share interior volume, each    *)
(* wall taken as the box its placement and its solid give: the profile's    *)
(* points carried to the world by the location, the reference axis and the  *)
(* in-plane perpendicular (up-axis x reference-axis), swept by the depth.    *)

SetMin(S) == CHOOSE x \in S : \A y \in S : x <= y

SetMax(S) == CHOOSE x \in S : \A y \in S : x >= y

\* The profile's points in world coordinates, in plan.
WorldPoints(e) ==
    LET d == Element(e).ObjectPlacement.RefDirection
        perp == <<-d[2], d[1]>>
        pts == Solid(e).points
    IN  {<<Location(e)[1] + pts[k][1] * d[1] + pts[k][2] * perp[1],
           Location(e)[2] + pts[k][1] * d[2] + pts[k][2] * perp[2]>> : k \in 1..Len(pts)}

\* <<x0, x1, y0, y1, z0, z1>> of a wall.
WallBox(e) ==
    LET xs == {p[1] : p \in WorldPoints(e)}
        ys == {p[2] : p \in WorldPoints(e)}
    IN  <<SetMin(xs), SetMax(xs), SetMin(ys), SetMax(ys),
          Location(e)[3], Location(e)[3] + Solid(e).Depth>>

\* Two open intervals meet.
Meet(a0, a1, b0, b1) == (IF a0 > b0 THEN a0 ELSE b0) < (IF a1 < b1 THEN a1 ELSE b1)

ShareInterior(a, b) ==
    /\ Meet(a[1], a[2], b[1], b[2])
    /\ Meet(a[3], a[4], b[3], b[4])
    /\ Meet(a[5], a[6], b[5], b[6])

C21_WallsDoNotOverlap ==
    pc = "slabs" =>
        \A s \in 0..4 :
           \A a, b \in WallsOf(s) :
              a # b => ~ShareInterior(WallBox(a), WallBox(b))


----------------------------------------------------------------------------
(* C22.  create_walls builds one layer set usage per occupied storey; every *)
(* wall of the storey is associated with that usage and with no other, no   *)
(* wall with the usage of another storey; and no step of the program        *)
(* changes a usage that is in the file.                                     *)

\* The usages element e is associated with.
UsagesOf(e) ==
    {model.assocs[a].RelatingMaterial :
        a \in {a \in 1..Len(model.assocs) :
                 \E k \in 1..Len(model.assocs[a].RelatedObjects) :
                    model.assocs[a].RelatedObjects[k] = e}}

C22_State ==
    pc = "slabs" =>
        /\ Len(model.usages) = 5
        /\ \A s \in 0..4 :
              \E u \in 1..Len(model.usages) : \A e \in WallsOf(s) : UsagesOf(e) = {u}
        /\ \A s, t \in 0..4 :
              s # t => \A a \in WallsOf(s), b \in WallsOf(t) :
                          UsagesOf(a) \cap UsagesOf(b) = {}

C22_Step ==
    \A u \in 1..Len(model.usages) :
       /\ u <= Len(model'.usages)
       /\ model'.usages[u] = model.usages[u]

C22_OneUsagePerStorey == [](C22_State) /\ [][C22_Step]_vars

C22_Witness ==
    /\ pc = "windows"
    /\ Len(model.usages) > 5
    /\ \A s \in 0..4 : \E e \in WallsOf(s) : UsagesOf(e) = {s + 1}
    /\ model.usages[3].LayerSetDirection = "AXIS2"


----------------------------------------------------------------------------
(* C23.  Every wall create_walls makes is placed at the start point of its  *)
(* request, with up-axis (0,0,1) and reference-axis the unit vector from    *)
(* start to end; its profile runs from 0 to |end - start| along that axis.  *)
(* The reference-axis is world-X or world-Y and the profile length the      *)
(* footprint's width or depth.                                              *)

\* The plan end points <<start, end>> of the wall named `name`.
RequestedEnds(name) ==
    CASE name = "Front Wall" -> << <<0, 0>>, <<Width, 0>> >>
      [] name = "Back Wall" -> << <<0, Depth>>, <<Width, Depth>> >>
      [] name = "Left Wall" -> << <<0, 0>>, <<0, Depth>> >>
      [] name = "Right Wall" -> << <<Width, 0>>, <<Width, Depth>> >>
      [] name = "Corridor Wall" -> << <<0, Depth \div 2>>, <<Width, Depth \div 2>> >>
      [] name = "Cross Wall 1" -> << <<Width \div 3, 0>>, <<Width \div 3, Depth>> >>
      [] name = "Cross Wall 2" -> << <<(Width \div 3) * 2, 0>>, <<(Width \div 3) * 2, Depth>> >>

\* |end - start| of a segment along X or along Y.
Distance(ends) == Abs(ends[2][1] - ends[1][1]) + Abs(ends[2][2] - ends[1][2])

\* The unit vector from start to end of such a segment.
UnitVector(ends) ==
    IF ends[2][2] = ends[1][2]
    THEN <<IF ends[2][1] > ends[1][1] THEN 1 ELSE -1, 0, 0>>
    ELSE <<0, IF ends[2][2] > ends[1][2] THEN 1 ELSE -1, 0>>

\* The extent of the profile along the reference-axis.
ProfileAlongAxis(e) ==
    LET xs == {Solid(e).points[k][1] : k \in 1..Len(Solid(e).points)}
    IN  <<SetMin(xs), SetMax(xs)>>

----------------------------------------------------------------------------
(* C24.  On the ground floor's front facade the front door's rectangle (x   *)
(* from its position for its width, z from the ground elevation for its     *)
(* height) is disjoint from the rectangle of every front window of that     *)
(* floor (x from its position for its width, z from elevation + sill for    *)
(* its height).                                                             *)

\* <<x0, x1, z0, z1>> of an opening: its position, and the width and height
\* its constructor was handed.
FacadeRectangle(e) ==
    <<Location(e)[1], Location(e)[1] + Solid(e).points[3][1],
      Location(e)[3], Location(e)[3] + Solid(e).points[3][2]>>

RectanglesMeet(a, b) ==
    /\ Meet(a[1], a[2], b[1], b[2])
    /\ Meet(a[3], a[4], b[3], b[4])

C24_FrontOpeningsDisjoint ==
    pc = "stoop" =>
        \A d \in FrontDoors :
           \A w \in FacadeWindows(1, 0) :
              ~RectanglesMeet(FacadeRectangle(d), FacadeRectangle(w))


----------------------------------------------------------------------------
(* C25.  Every solid in the file is a swept volume: its extrusion direction *)
(* has a non-zero component along the normal of its profile's plane and its *)
(* depth is positive; a door's or a window's vertical extent is the height  *)
(* it was made with.                                                        *)

\* Every extrusion's own position is the identity frame (axis (0,0,1), ref
\* direction (1,0,0)): the profile lies in the local XY plane.
ProfileNormal == <<0, 0, 1>>

Dot(a, b) == a[1] * b[1] + a[2] * b[2] + a[3] * b[3]

\* The extent of the solid of e along the up-axis of its placement: the sweep's
\* share, the profile lying across that axis.
VerticalExtent(e) ==
    Abs(Dot(Solid(e).ExtrudedDirection, Element(e).ObjectPlacement.Axis)) * Solid(e).Depth

C25_SolidsAreSweptVolumes ==
    \A e \in ElementIds :
       /\ Dot(Solid(e).ExtrudedDirection, ProfileNormal) # 0
       /\ Solid(e).Depth > 0
       /\ Element(e).type \in {"IfcDoor", "IfcWindow"} =>
             VerticalExtent(e) = Solid(e).points[3][2]


----------------------------------------------------------------------------
(* C26.  Every wall of an occupied storey i starts at the storey's          *)
(* elevation and is extruded upward by the height the wall-height table     *)
(* pairs with i, so that its top is at the elevation of storey i + 1: the   *)
(* two tables agree for all positive floor heights.                         *)

WallTop(e) == Location(e)[3] + Solid(e).Depth

C26_WallTopsMeetNextStorey ==
    pc = "slabs" =>
        \A i \in 0..4 :
           \A e \in WallsOf(i) :
              /\ Location(e)[3] = Elevation(i)
              /\ Solid(e).ExtrudedDirection = <<0, 0, 1>>
              /\ Solid(e).Depth = NominalHeight(i) * FOOT_TO_METER
              /\ WallTop(e) = Elevation(i + 1)

C26_Witness ==
    /\ pc = "slabs"
    /\ params.BASEMENT_HEIGHT # DefaultBasementHeight
    /\ params.THIRD_FLOOR_HEIGHT # params.FOURTH_FLOOR_HEIGHT
    /\ \E e \in WallsOf(0) : WallTop(e) = 0
    /\ \E e \in WallsOf(4) : WallTop(e) = Elevation(5) /\ Solid(e).Depth > 0


----------------------------------------------------------------------------
(* C27.  The slab of the boundary between storey i and storey i + 1 is      *)
(* contained in storey i + 1 and not in storey i: the basement holds no     *)
(* slab, each of the four floors above it exactly one, and the roof storey  *)
(* exactly two, the topmost boundary slab and the roof slab, both ROOF.     *)

SlabsOf(s) == ContainedIn(s) \cap ElementsOfType("IfcSlab")

C27_SlabUnderUpperStorey ==
    pc = "windows" =>
        /\ \A i \in 0..4 :
              /\ Cardinality(BoundarySlabs(i)) = 1
              /\ \A e \in BoundarySlabs(i) : StoreysOf(e) = {At(storeys, i + 1).id}
        /\ SlabsOf(0) = {}
        /\ \A s \in 1..4 : Cardinality(SlabsOf(s)) = 1
        /\ Cardinality(SlabsOf(5)) = 2
        /\ SlabsOf(5) = BoundarySlabs(4) \cup RoofSlabs
        /\ \A e \in SlabsOf(5) : Element(e).PredefinedType = "ROOF"

C27_Witness ==
    /\ pc = "windows"
    /\ \E a, b \in SlabsOf(5) : SlabTop(a) < SlabTop(b)
    /\ \E e \in SlabsOf(1) : SlabTop(e) = 0


----------------------------------------------------------------------------
(* C28.  With the default parameters every window lies within its facade    *)
(* (0 <= x and x + width <= building width), windows of one facade of one   *)
(* storey do not overlap in x, and no window's top (storey elevation + sill *)
(* + window height) is above the underside of the slab over the storey      *)
(* (next elevation - floor thickness).                                      *)

WindowTop(e) == Location(e)[3] + WindowHeight(e)

----------------------------------------------------------------------------
(* C29.  A call of create_mep_element that fails because its element_type   *)
(* is not in the catalog leaves the file exactly as it was before the       *)
(* call.                                                                    *)

C29_FailedCall ==
    /\ call'.n = call.n + 1
    /\ call'.element_type \notin MepCatalogTypes
    /\ raised' # NoError

C29_FailedCallLeavesModelUntouched == [][C29_FailedCall => model' = model]_vars


----------------------------------------------------------------------------
(* C30.  visualize_ifc meshes each entity of the file at most once, and the *)
(* entity_count it reports is the number of distinct entities meshed; an    *)
(* entity create_shape raises RuntimeError for is not meshed and not        *)
(* counted.                                                                 *)

\* The places <<type, position>> of the meshes of entity e in meshes_by_type.
MeshesOf(e) ==
    UNION {{<<t, k>> : k \in {k \in 1..Len(meshes_by_type[t]) :
                                meshes_by_type[t][k].entity = e}} :
             t \in DOMAIN meshes_by_type}

MeshedEntities == {e \in 1..Len(model.elements) : MeshesOf(e) # {}}

C30_EachEntityMeshedOnce ==
    pc = "shown" =>
        /\ \A e \in 1..Len(model.elements) : Cardinality(MeshesOf(e)) <= 1
        /\ entity_count = Cardinality(MeshedEntities)
        /\ MeshedEntities \cap unmeshable = {}

====
